---- MODULE Spec2Model ----
(***************************************************************************)
(* The A2A protocol engine of hospital_a2a_system.py: the JSON-RPC        *)
(* dispatch of BaseA2AAgent, SecureA2AAgent and StreamingA2AAgent, the     *)
(* task table written by handle_message_send, and the capability          *)
(* handlers (process_message) bound to them.                               *)
(*                                                                         *)
(* Python's None is the value None below.  A value of uuid.uuid4() is      *)
(* Uuid(k, j): the j-th draw made while serving the k-th request; two      *)
(* draws differ, and no draw equals a value chosen by a client.            *)
(* Timestamps (datetime.utcnow) are left out of the records.               *)
(***************************************************************************)
EXTENDS Integers, Sequences, FiniteSets, TLC

\* How many requests an agent receives in one behaviour.
MaxRequests == 2

---------------------------------------------------------------------------
\* Identifiers

None == [src |-> "none", req |-> 0, n |-> 0]

Uuid(k, j) == [src |-> "uuid4", req |-> k, n |-> j]

Client(j) == [src |-> "client", req |-> 0, n |-> j]

\* The ids a caller puts in the "id" member of a request body.
RequestIds == {None, Client(1), Client(2)}

---------------------------------------------------------------------------
\* Parts and messages

TextPart(t) == [kind |-> "text", text |-> t, data |-> <<>>]

DataPart(d) == [kind |-> "data", text |-> <<>>, data |-> <<d>>]

\* Message(...) of the dataclass; taskId and contextId default to None.  A
\* text is the sequence of its (lower-case) words: a keyword test such as
\* `"find" in user_message.lower()` is a test on the words.
Message(role, parts, messageId, taskId, contextId) ==
    [kind |-> "message", role |-> role, has_parts |-> TRUE, parts |-> parts,
     messageId |-> messageId, taskId |-> taskId, contextId |-> contextId]

\* params.get("message") of a params object without a "message" member.
NoMessage ==
    [kind |-> "None", role |-> "", has_parts |-> FALSE, parts |-> <<>>,
     messageId |-> None, taskId |-> None, contextId |-> None]

\* The "message" member of the params of a request, as a caller builds it
\* (A2AClient.send_message, call_agent): a user message with one text part,
\* with or without a contextId, with an empty parts list, or without a
\* "parts" member.  The texts are a greeting, a search and a registration.
InboundMessages ==
    { NoMessage,
      Message("user", <<TextPart(<<"hello">>)>>, Client(9), None, None),
      Message("user", <<TextPart(<<"find", "cardiology", "doctors">>)>>, Client(9), None, Client(7)),
      Message("user", <<TextPart(<<"register", "patient">>)>>, Client(9), None, None),
      Message("user", <<>>, Client(9), None, Client(7)),
      [Message("user", <<>>, Client(9), None, None) EXCEPT !.has_parts = FALSE] }

---------------------------------------------------------------------------
\* Requests

\* The "params" member: absent (data.get("params", {}) gives {}), a JSON
\* value that is no object (null, a list), or an object.
ParamsAbsent == [kind |-> "absent", message |-> NoMessage]

ParamsNonDict == [kind |-> "nondict", message |-> NoMessage]

ParamsDict(m) == [kind |-> "dict", message |-> m]

ParamsSet == {ParamsAbsent, ParamsNonDict} \cup { ParamsDict(m) : m \in InboundMessages }

\* data.get("method") of a body without "method" is None.
Methods == {"None", "message/send", "message/stream", "message/delete"}

\* The body of the POST: bytes that are no JSON, a JSON value that is no
\* object, or a JSON object.
BodyMalformed == [kind |-> "malformed", id |-> None, method |-> "None", params |-> ParamsAbsent]

BodyNonDict == [kind |-> "nondict", id |-> None, method |-> "None", params |-> ParamsAbsent]

BodyDict(id, method, params) == [kind |-> "dict", id |-> id, method |-> method, params |-> params]

\* Only message/send reads params.
Bodies ==
    {BodyMalformed, BodyNonDict}
    \cup { BodyDict(i, m, ParamsAbsent) : i \in RequestIds, m \in Methods \ {"message/send"} }
    \cup { BodyDict(i, "message/send", p) : i \in RequestIds, p \in ParamsSet }

\* A header value is a sequence of fragments of its text; <<>> is a header
\* that is not sent.
NoHeaders == [api_key |-> <<>>, authorization |-> <<>>]

Credentials(api_key, authorization) == [api_key |-> api_key, authorization |-> authorization]

Headers ==
    { NoHeaders,
      Credentials(<<"hospital_", "front-desk">>, <<>>),
      Credentials(<<"clinic_", "front-desk">>, <<"Bearer ", "valid", "-token">>),
      Credentials(<<"clinic_", "front-desk">>, <<"Bearer ", "expired">>),
      Credentials(<<>>, <<"Basic ", "valid">>) }

HttpRequest(h, b) == [headers |-> h, body |-> b]

---------------------------------------------------------------------------
\* Agents

\* The dataclass AgentSkill; inputModes and outputModes are never given.
AgentSkill(id, name, description, tags, examples) ==
    [id |-> id, name |-> name, description |-> description, tags |-> tags,
     examples |-> examples, inputModes |-> None, outputModes |-> None]

\* An agent as constructed: the class whose handle_json_rpc serves POST
\* /a2a/v1, the class whose process_message is bound, require_auth, and the
\* name, description, port and skills BaseA2AAgent.__init__ stores.
Agent(cls, handler, require_auth, name, description, port, skills) ==
    [cls |-> cls, handler |-> handler, require_auth |-> require_auth,
     name |-> name, description |-> description, port |-> port, skills |-> skills]

\* BaseA2AAgent(name, description, port, skills) constructed directly,
\* without skills.
BaseAgent == Agent("Base", "base", FALSE, "Base Agent", "A2A agent", 8080, <<>>)

\* DoctorAvailabilityAgent()
DoctorAgent ==
    Agent("Base", "doctor", FALSE,
          "Doctor Availability Agent",
          "Manages doctor schedules and availability for appointment booking",
          8002,
          << AgentSkill("doctor-search", "Doctor Search",
                        "Search for doctors by specialty, department, or name",
                        <<"doctor", "search", "specialty", "department">>,
                        <<"Find cardiologists available this week",
                          "Search for doctors in Emergency Department",
                          "Find Dr. Smith's availability">>),
             AgentSkill("availability-check", "Availability Check",
                        "Check doctor availability for specific dates and times",
                        <<"availability", "schedule", "appointment">>,
                        <<"Check Dr. Johnson's availability for next Monday",
                          "Find available slots in Cardiology for this week">>) >>)

\* HospitalCoordinatorAgent()
CoordinatorAgent ==
    Agent("Base", "coordinator", FALSE,
          "Hospital Coordinator Agent",
          "Main coordinator that orchestrates appointment booking workflows across all hospital systems",
          8000,
          << AgentSkill("appointment-orchestration", "Appointment Orchestration",
                        "Coordinate complete appointment booking workflow across all hospital agents",
                        <<"orchestration", "workflow", "coordination">>,
                        <<"Book appointment for John Doe with cardiology",
                          "Help me schedule a checkup with Dr. Johnson next week">>) >>)

\* The skills HIPAACompliantPatientAgent.__init__ declares.
secure_skills ==
    << AgentSkill("secure-patient-registration", "Secure Patient Registration",
                  "HIPAA-compliant patient registration with encryption and audit logging",
                  <<"registration", "patient", "HIPAA", "secure">>,
                  <<"Register new patient with encrypted PHI",
                    "Verify patient identity with secure lookup">>) >>

\* HIPAACompliantPatientAgent(): the subclass of SecureA2AAgent the
\* repository defines; its __init__ fixes the name, the port, the skills
\* and require_auth.
SecureAgent ==
    Agent("Secure", "hipaa", TRUE,
          "HIPAA-Compliant Patient Agent",
          "Secure patient registration service with HIPAA compliance features",
          8004, secure_skills)

\* SecureA2AAgent(..., require_auth=False), with the process_message it
\* inherits.
OpenSecureAgent ==
    Agent("Secure", "base", FALSE,
          "HIPAA-Compliant Patient Agent",
          "Secure patient registration service with HIPAA compliance features",
          8004, secure_skills)

\* StreamingA2AAgent()
StreamingAgent ==
    Agent("Streaming", "base", FALSE,
          "Streaming Medical Analysis Agent",
          "Provides streaming medical analysis with real-time updates",
          8005,
          << AgentSkill("long-running-analysis", "Long-Running Medical Analysis",
                        "Perform complex medical data analysis with streaming updates",
                        <<"analysis", "streaming", "medical">>,
                        <<"Analyze patient medical history with real-time updates">>) >>)

\* The agents whose handler returns without suspending.
Agents == {BaseAgent, DoctorAgent, SecureAgent, OpenSecureAgent, StreamingAgent}

---------------------------------------------------------------------------
\* Tasks

TaskStatus(state, message) == [state |-> state, message |-> message]

Task(id, contextId, status, history) ==
    [id |-> id, contextId |-> contextId, status |-> status, history |-> history,
     kind |-> "task"]

NoTask == Task(None, None, TaskStatus("None", NoMessage), <<>>)

TerminalStates == {"completed", "canceled", "failed", "rejected"}

---------------------------------------------------------------------------
\* Responses

NoError == [code |-> 0, message |-> "", exc |-> "", data |-> {}]

\* An envelope that has a result member and an error member.
Envelope_with_both(keys, id, result, error) ==
    [keys |-> keys \cup {"result", "error"}, id |-> id, result |-> result, error |-> error]

\* A response envelope: the keys of the dict and the values under them.
Envelope(keys, id, result, error) ==
    [keys |-> keys, id |-> id, result |-> result, error |-> error]

NoEnvelope == Envelope({}, None, NoTask, NoError)

\* What the route returns: a dict (sent as JSON), a StreamingResponse around
\* a generator that has not run yet, or an exception that leaves
\* handle_json_rpc.
JsonResponse(env) == [transport |-> "json", envelope |-> env, exc |-> ""]

SseResponse == [transport |-> "sse", envelope |-> NoEnvelope, exc |-> ""]

Unhandled(exc) == [transport |-> "exception", envelope |-> NoEnvelope, exc |-> exc]

NoResponse == [transport |-> "none", envelope |-> NoEnvelope, exc |-> ""]

---------------------------------------------------------------------------
\* Capability handlers (process_message)

\* What a call appended to self.audit_log and added to
\* self.encrypted_patients; only HIPAACompliantPatientAgent has them.
Effects(audit, encrypted) == [audit |-> audit, encrypted |-> encrypted]

NoEffects == Effects(<<>>, <<>>)

Returned(m) == [raised |-> FALSE, exc |-> "", message |-> m, effects |-> NoEffects]

Raised(e) == [raised |-> TRUE, exc |-> e, message |-> NoMessage, effects |-> NoEffects]

Contains(text, word) == \E i \in DOMAIN text : text[i] = word

\* message.get("parts", [{}])[0].get("text", ""): the text of the first
\* part, or the exception the expression raises.
user_message_of(message) ==
    IF message.kind = "None" THEN [raised |-> TRUE, exc |-> "AttributeError", text |-> <<>>]
    ELSE IF ~message.has_parts THEN [raised |-> FALSE, exc |-> "", text |-> <<>>]
    ELSE IF message.parts = <<>> THEN [raised |-> TRUE, exc |-> "IndexError", text |-> <<>>]
    ELSE [raised |-> FALSE, exc |-> "", text |-> message.parts[1].text]

\* BaseA2AAgent.process_message: the reply does not depend on the message.
Base_process_message(message, task_id, context_id, k) ==
    Returned(Message("agent", <<TextPart(<<"Base agent response">>)>>,
                     Uuid(k, 3), task_id, context_id))

\* sample_doctors of DoctorAvailabilityAgent._initialize_doctors.
sample_doctors ==
    << [name |-> "Dr. Sarah Johnson", specialty |-> "Cardiology", department |-> "Heart Center"],
       [name |-> "Dr. Michael Chen", specialty |-> "Dermatology", department |-> "Skin Care"],
       [name |-> "Dr. Emily Rodriguez", specialty |-> "Pediatrics",
        department |-> "Children's Health"],
       [name |-> "Dr. David Smith", specialty |-> "Orthopedics", department |-> "Bone & Joint"],
       [name |-> "Dr. Lisa Wong", specialty |-> "Emergency Medicine",
        department |-> "Emergency Department"] >>

\* The hours of a day that have a slot.
slot_hours == <<9, 10, 11, 14, 15, 16>>

\* available_slots of a doctor: for each of the next 7 days, counted from
\* the day the agent was constructed, one slot per hour of slot_hours.
available_slots ==
    [n \in 1..(7 * Len(slot_hours)) |->
        [day |-> ((n - 1) \div Len(slot_hours)) + 1,
         hour |-> slot_hours[((n - 1) % Len(slot_hours)) + 1]]]

\* self.doctors as _initialize_doctors builds it, in insertion order; the
\* ids are drawn when the agent is constructed, before any request.
doctors ==
    [i \in DOMAIN sample_doctors |->
        [id |-> Uuid(0, i), name |-> sample_doctors[i].name,
         specialty |-> sample_doctors[i].specialty,
         department |-> sample_doctors[i].department,
         available_slots |-> available_slots]]

\* specialty.lower(), as the words of the text.
lower(specialty) ==
    CASE specialty = "Cardiology" -> <<"cardiology">>
      [] specialty = "Dermatology" -> <<"dermatology">>
      [] specialty = "Pediatrics" -> <<"pediatrics">>
      [] specialty = "Orthopedics" -> <<"orthopedics">>
      [] specialty = "Emergency Medicine" -> <<"emergency", "medicine">>
      [] OTHER -> <<>>

\* DoctorAvailabilityAgent.handle_doctor_search: the first specialty named
\* in the text selects the doctors; without one, all five are returned.
handle_doctor_search(user_message, task_id, context_id, k) ==
    LET specialties == <<"cardiology", "dermatology", "pediatrics", "orthopedics", "emergency">>
        named == { i \in DOMAIN specialties : Contains(user_message, specialties[i]) }
        found == IF named = {} THEN "None"
                 ELSE specialties[CHOOSE i \in named : \A j \in named : i <= j]
        matches(doctor) == found = "None" \/ Contains(lower(doctor.specialty), found)
        matching_doctors == SelectSeq(doctors, matches)
        doctors_data ==
            [i \in DOMAIN matching_doctors |->
                [id |-> matching_doctors[i].id, name |-> matching_doctors[i].name,
                 specialty |-> matching_doctors[i].specialty,
                 department |-> matching_doctors[i].department,
                 available_slots_count |-> Len(matching_doctors[i].available_slots)]]
        text == IF Len(matching_doctors) = 5 THEN <<"Found 5 doctors matching your criteria:">>
                ELSE <<"Found 1 doctors matching your criteria:">>
    IN  IF matching_doctors # <<>>
        THEN Message("agent", <<TextPart(text), DataPart([doctors |-> doctors_data])>>,
                     Uuid(k, 3), task_id, context_id)
        ELSE Message("agent", <<TextPart(<<"No doctors found matching your criteria.">>)>>,
                     Uuid(k, 3), task_id, context_id)

\* DoctorAvailabilityAgent.handle_availability_check: for every doctor the
\* first three of its slots, whatever the text says.
handle_availability_check(user_message, task_id, context_id, k) ==
    LET availability_data ==
            [i \in DOMAIN doctors |->
                [doctor_id |-> doctors[i].id, doctor_name |-> doctors[i].name,
                 specialty |-> doctors[i].specialty,
                 next_available_slots |-> SubSeq(doctors[i].available_slots, 1, 3)]]
    IN  Message("agent", <<TextPart(<<"Here's the current availability:">>),
                           DataPart([availability |-> availability_data])>>,
                Uuid(k, 3), task_id, context_id)

\* DoctorAvailabilityAgent.process_message
Doctor_process_message(message, task_id, context_id, k) ==
    LET um == user_message_of(message) IN
    IF um.raised THEN Raised(um.exc)
    ELSE IF Contains(um.text, "find") \/ Contains(um.text, "search")
         THEN Returned(handle_doctor_search(um.text, task_id, context_id, k))
    ELSE IF Contains(um.text, "availability") \/ Contains(um.text, "available")
         THEN Returned(handle_availability_check(um.text, task_id, context_id, k))
    ELSE Returned(Message("agent",
             <<TextPart(<<"I can help you search for doctors or check their availability. What would you like to do?">>)>>,
             Uuid(k, 3), task_id, context_id))

\* The patient id "unknown" of the entry logged before the request is read.
UnknownPatient == [src |-> "unknown", req |-> 0, n |-> 0]

\* HIPAACompliantPatientAgent.log_access: the entry it appends to
\* self.audit_log (the timestamp is left out).
log_access(action, patient_id, user_context, session_id) ==
    [action |-> action, patient_id |-> patient_id, user_context |-> user_context,
     session_id |-> session_id]

\* A string as the sequence of its characters, reversed: data[::-1].
RECURSIVE reversed(_)
reversed(data) ==
    IF data = <<>> THEN <<>> ELSE reversed(Tail(data)) \o <<Head(data)>>

\* HIPAACompliantPatientAgent.encrypt_phi: f"encrypted_{data[::-1]}"
encrypt_phi(data) == <<"encrypted_">> \o reversed(data)

\* patient_data of secure_registration, each string as its characters.
secure_patient_data ==
    [name |-> <<"J", "o", "h", "n", " ", "S", "e", "c", "u", "r", "e", " ", "D", "o", "e">>,
     ssn |-> <<"X", "X", "X", "-", "X", "X", "-", "1", "2", "3", "4">>,
     dob |-> <<"1", "9", "9", "0", "-", "0", "1", "-", "0", "1">>]

\* HIPAACompliantPatientAgent.secure_registration: the encrypted record it
\* stores under a fresh id, the entry it logs, and its reply.
secure_registration(user_message, task_id, context_id, k) ==
    LET patient_id == Uuid(k, 4)
        encrypted_patient ==
            [id |-> patient_id,
             name_encrypted |-> encrypt_phi(secure_patient_data.name),
             ssn_encrypted |-> encrypt_phi(secure_patient_data.ssn),
             dob_encrypted |-> encrypt_phi(secure_patient_data.dob)]
    IN  [Returned(Message("agent",
                          <<TextPart(<<"Patient registered securely with HIPAA compliance.">>),
                            DataPart([patient_id |-> patient_id,
                                      registration_status |-> "completed_secure",
                                      compliance_level |-> "HIPAA",
                                      audit_logged |-> TRUE])>>,
                          Uuid(k, 6), task_id, context_id))
         EXCEPT !.effects =
             Effects(<<log_access("patient_registration", patient_id, context_id, Uuid(k, 5))>>,
                     (patient_id :> encrypted_patient))]

\* HIPAACompliantPatientAgent.process_message: the access is logged once
\* the text was read, then a registration is handled or the notice returned.
Hipaa_process_message(message, task_id, context_id, k) ==
    LET um == user_message_of(message)
        logged == log_access("data_access", UnknownPatient, context_id, Uuid(k, 3))
    IN  IF um.raised THEN Raised(um.exc)
        ELSE IF Contains(um.text, "register")
        THEN [secure_registration(um.text, task_id, context_id, k)
              EXCEPT !.effects.audit = <<logged>> \o @]
        ELSE [Returned(Message("agent",
                  <<TextPart(<<"Secure HIPAA-compliant patient services available.">>)>>,
                  Uuid(k, 4), task_id, context_id))
              EXCEPT !.effects.audit = <<logged>>]

\* self.process_message of an agent whose handler does not suspend.
process_message(agent, message, task_id, context_id, k) ==
    IF agent.handler = "doctor"
    THEN Doctor_process_message(message, task_id, context_id, k)
    ELSE IF agent.handler = "hipaa"
    THEN Hipaa_process_message(message, task_id, context_id, k)
    ELSE Base_process_message(message, task_id, context_id, k)

---------------------------------------------------------------------------
\* BaseA2AAgent.handle_message_send

\* A task id that is the same for every request.
reused_task_id(k) == Uuid(1, 1)

\* uuid.uuid4() of line 197 and of line 198, for the k-th request.
new_task_id(k) == Uuid(k, 1)

new_context_id(message, k) == Uuid(k, 2)

\* A task whose history lists the reply before the inbound message.
make_task_reply_first(task_id, context_id, message, response_message) ==
    Task(task_id, context_id, TaskStatus("completed", response_message),
         <<response_message, message>>)

\* Task(...) of lines 204-213.
make_task(task_id, context_id, message, response_message) ==
    Task(task_id, context_id, TaskStatus("completed", response_message),
         <<message, response_message>>)

\* A store that reopens the entries already in the table.
store_task_reopening(tasks, task) ==
    (task.id :> task) @@ [t \in DOMAIN tasks |-> [tasks[t] EXCEPT !.status.state = "working"]]

\* A store that replaces the table: self.tasks = {task_id: task}.
store_task_replacing_table(tasks, task) == (task.id :> task)

\* self.tasks[task_id] = task
store_task(tasks, task) == (task.id :> task) @@ tasks

\* The part of handle_message_send before process_message is awaited:
\* params.get("message") raises when params is no dict.
begin_message_send(params, k) ==
    IF params.kind = "nondict"
    THEN [raised |-> TRUE, exc |-> "AttributeError", message |-> NoMessage,
          task_id |-> None, context_id |-> None]
    ELSE [raised |-> FALSE, exc |-> "", message |-> params.message,
          task_id |-> new_task_id(k), context_id |-> new_context_id(params.message, k)]

\* The part of handle_message_send after process_message was awaited, r
\* being what it returned or raised: the Task is built and stored.
end_message_send(tasks, b, r) ==
    IF r.raised THEN [raised |-> TRUE, exc |-> r.exc, result |-> NoTask, tasks |-> tasks,
                      effects |-> r.effects]
    ELSE LET task == make_task(b.task_id, b.context_id, b.message, r.message)
         IN  [raised |-> FALSE, exc |-> "", result |-> task,
              tasks |-> store_task(tasks, task), effects |-> r.effects]

\* The whole of handle_message_send: what it returns (or that it raised),
\* the task table it leaves and what its handler logged and stored.
handle_message_send(agent, tasks, params, k) ==
    LET b == begin_message_send(params, k) IN
    IF b.raised THEN [raised |-> TRUE, exc |-> b.exc, result |-> NoTask, tasks |-> tasks,
                      effects |-> NoEffects]
    ELSE end_message_send(tasks, b,
                          process_message(agent, b.message, b.task_id, b.context_id, k))

---------------------------------------------------------------------------
\* Capability document and authentication

\* BaseA2AAgent.get_agent_card: asdict of the AgentCard built from the
\* fields of the agent; documentationUrl keeps its default.
Base_get_agent_card(agent) ==
    [name |-> agent.name,
     description |-> agent.description,
     url |-> <<"http://localhost:", agent.port, "/a2a/v1">>,
     version |-> "1.0.0",
     defaultInputModes |-> <<"application/json", "text/plain">>,
     defaultOutputModes |-> <<"application/json", "text/plain">>,
     skills |-> agent.skills,
     capabilities |-> [streaming |-> FALSE,
                       pushNotifications |-> FALSE,
                       stateTransitionHistory |-> FALSE],
     documentationUrl |-> None]

\* SecureA2AAgent.get_agent_card: the keys securitySchemes and security are
\* added to the document when require_auth, and absent otherwise.
Secure_get_agent_card(agent) ==
    IF agent.require_auth
    THEN Base_get_agent_card(agent) @@
         [securitySchemes |->
              [apiKey |-> [type |-> "apiKey", in |-> "header", name |-> "X-API-Key"],
               bearer |-> [type |-> "http", scheme |-> "bearer", bearerFormat |-> "JWT"]],
          security |-> <<[apiKey |-> <<>>], [bearer |-> <<>>]>>]
    ELSE Base_get_agent_card(agent)

\* StreamingA2AAgent.get_agent_card
Streaming_get_agent_card(agent) ==
    [Base_get_agent_card(agent) EXCEPT !.capabilities.streaming = TRUE]

\* self.get_agent_card() of the class of the agent.
get_agent_card(agent) ==
    IF agent.cls = "Secure" THEN Secure_get_agent_card(agent)
    ELSE IF agent.cls = "Streaming" THEN Streaming_get_agent_card(agent)
    ELSE Base_get_agent_card(agent)

\* self.get_agent_card().get("securitySchemes", {}).keys()
required_auth(agent) ==
    IF "securitySchemes" \in DOMAIN get_agent_card(agent)
    THEN DOMAIN get_agent_card(agent).securitySchemes
    ELSE {}

\* Before any GET of the card was answered.
NoCard == [name |-> None]

\* GET /.well-known/agent.json: the route returns self.get_agent_card() of
\* the agent as it is when the request arrives.
get_agent_card_route(agent) == get_agent_card(agent)

\* api_key.startswith("hospital_")
validate_api_key(api_key) == Len(api_key) > 0 /\ api_key[1] = "hospital_"

\* "valid" in token
validate_jwt_token(token) == \E i \in DOMAIN token : token[i] = "valid"

\* A gate that rejects a request whose API key is invalid without looking at
\* its bearer token.
authenticate_request_api_key_decides(agent, headers) ==
    IF ~agent.require_auth THEN TRUE
    ELSE IF headers.api_key # <<>> THEN validate_api_key(headers.api_key)
    ELSE IF Len(headers.authorization) > 0 /\ headers.authorization[1] = "Bearer "
         THEN validate_jwt_token(Tail(headers.authorization))
    ELSE FALSE

\* SecureA2AAgent.authenticate_request
authenticate_request(agent, headers) ==
    IF ~agent.require_auth THEN TRUE
    ELSE IF headers.api_key # <<>> /\ validate_api_key(headers.api_key) THEN TRUE
    ELSE IF Len(headers.authorization) > 0 /\ headers.authorization[1] = "Bearer "
         THEN validate_jwt_token(Tail(headers.authorization))
    ELSE FALSE

---------------------------------------------------------------------------
\* JSON-RPC envelopes and dispatch

\* A success envelope that drops the request id.
success_envelope_null_id(request_id, result) ==
    Envelope({"jsonrpc", "id", "result"}, None, result, NoError)

\* Lines 171-175.
success_envelope(request_id, result) ==
    Envelope({"jsonrpc", "id", "result"}, request_id, result, NoError)

\* An unknown method reported as an internal error.
method_not_found_as_internal(request_id) ==
    Envelope({"jsonrpc", "id", "error"}, request_id, NoTask,
             [code |-> -32603, message |-> "Internal error: ", exc |-> "", data |-> {}])

\* Lines 177-184.
method_not_found_envelope(request_id) ==
    Envelope({"jsonrpc", "id", "error"}, request_id, NoTask,
             [code |-> -32601, message |-> "Method not found", exc |-> "", data |-> {}])

\* An internal error reported without the id of the request.
internal_error_envelope_null_id(request_id, exc) ==
    Envelope({"jsonrpc", "id", "error"}, None, NoTask,
             [code |-> -32603, message |-> "Internal error: ", exc |-> exc, data |-> {}])

\* Lines 186-193.
internal_error_envelope(request_id, exc) ==
    Envelope({"jsonrpc", "id", "error"}, request_id, NoTask,
             [code |-> -32603, message |-> "Internal error: ", exc |-> exc, data |-> {}])

\* Lines 1059-1069.
auth_required_envelope(agent, request_id) ==
    Envelope({"jsonrpc", "id", "error"}, None, NoTask,
             [code |-> -32001, message |-> "Authentication required", exc |-> "",
              data |-> required_auth(agent)])

\* The answer of handle_json_rpc to a message/send request, r being what
\* handle_message_send returned or raised (lines 168-175 and 185-193).
message_send_response(request_id, r) ==
    IF r.raised
    THEN [response |-> JsonResponse(internal_error_envelope(request_id, r.exc)),
          tasks |-> r.tasks, effects |-> r.effects]
    ELSE [response |-> JsonResponse(success_envelope(request_id, r.result)),
          tasks |-> r.tasks, effects |-> r.effects]

\* BaseA2AAgent.handle_json_rpc on the k-th request.  request.json()
\* raises on a malformed body and data.get raises on a body that is no
\* object; both are caught by `except Exception`, whose handler reads
\* request_id before it was assigned and so raises UnboundLocalError.
Base_handle_json_rpc(agent, tasks, request, k) ==
    LET data == request.body IN
    IF data.kind # "dict"
    THEN [response |-> Unhandled("UnboundLocalError"), tasks |-> tasks, effects |-> NoEffects]
    ELSE IF data.method = "message/send"
    THEN message_send_response(data.id, handle_message_send(agent, tasks, data.params, k))
    ELSE [response |-> JsonResponse(method_not_found_envelope(data.id)), tasks |-> tasks, effects |-> NoEffects]

\* A gate that looks at the credentials after the request was dispatched.
Secure_handle_json_rpc_dispatching_first(agent, tasks, request, k) ==
    LET r == Base_handle_json_rpc(agent, tasks, request, k) IN
    IF ~authenticate_request(agent, request.headers)
    THEN [response |-> JsonResponse(auth_required_envelope(agent, request.body.id)),
          tasks |-> r.tasks, effects |-> r.effects]
    ELSE r

\* SecureA2AAgent.handle_json_rpc
Secure_handle_json_rpc(agent, tasks, request, k) ==
    IF ~authenticate_request(agent, request.headers)
    THEN [response |-> JsonResponse(auth_required_envelope(agent, request.body.id)),
          tasks |-> tasks, effects |-> NoEffects]
    ELSE Base_handle_json_rpc(agent, tasks, request, k)

---------------------------------------------------------------------------
\* StreamingA2AAgent

\* Stages configured in another order.
analysis_steps_reordered ==
    <<"Processing medical history...", "Analyzing patient demographics...",
      "Evaluating diagnostic patterns...", "Generating risk assessment...",
      "Finalizing recommendations...">>

analysis_steps ==
    <<"Analyzing patient demographics...", "Processing medical history...",
      "Evaluating diagnostic patterns...", "Generating risk assessment...",
      "Finalizing recommendations...">>

\* An event that puts the context id where the task id belongs.
StreamEvent_mixing_ids(request_id, kind, task_key, task_id, context_id, state, message, has_final, final) ==
    [keys |-> {"jsonrpc", "id", "result"}, id |-> request_id,
     result |-> [kind |-> kind, task_key |-> task_key,
                 task_id |-> IF kind = "task" THEN task_id ELSE context_id,
                 contextId |-> context_id, state |-> state, message |-> message,
                 has_final |-> has_final, final |-> final]]

\* One yielded envelope: its "id", and in its result the key that holds the
\* task id ("id" or "taskId"), the state, the message and the final flag.
StreamEvent(request_id, kind, task_key, task_id, context_id, state, message, has_final, final) ==
    [keys |-> {"jsonrpc", "id", "result"}, id |-> request_id,
     result |-> [kind |-> kind, task_key |-> task_key, task_id |-> task_id,
                 contextId |-> context_id, state |-> state, message |-> message,
                 has_final |-> has_final, final |-> final]]

\* final of the i-th progress event: i == len(analysis_steps) - 1, 0-based.
progress_final(i) == (i - 1 = Len(analysis_steps) - 1)

\* The events generate_stream yields, in order, for the k-th request; it
\* draws its uuids when it runs, after the route has returned.
generate_stream(data, k) ==
    LET task_id == Uuid(k, 1)
        context_id == Uuid(k, 2)
        initial == StreamEvent(data.id, "task", "id", task_id, context_id, "working",
                               NoMessage, FALSE, FALSE)
        progress(i) ==
            StreamEvent(data.id, "status-update", "taskId", task_id, context_id, "working",
                        [Message("agent", <<TextPart(<<analysis_steps[i]>>)>>, Uuid(k, 2 + i),
                                 None, None) EXCEPT !.kind = "dict"],
                        TRUE, progress_final(i))
        completion == StreamEvent(data.id, "status-update", "taskId", task_id, context_id,
                                  "completed", NoMessage, TRUE, TRUE)
    IN  <<initial>> \o [i \in 1..Len(analysis_steps) |-> progress(i)] \o <<completion>>

\* The envelope StreamingA2AAgent.handle_json_rpc returns from its own
\* except clause: the message is str(e) alone, without the prefix the base
\* class puts before it.
streaming_error_envelope(request_id, exc) ==
    Envelope({"jsonrpc", "id", "error"}, request_id, NoTask,
             [code |-> -32603, message |-> "", exc |-> exc, data |-> {}])

\* `except Exception` of StreamingA2AAgent.handle_json_rpc around
\* super().handle_json_rpc, r being what that call returned or raised.
streaming_except(data, r) ==
    IF r.response.transport = "exception"
    THEN [response |-> JsonResponse(streaming_error_envelope(data.id, r.response.exc)),
          tasks |-> r.tasks, effects |-> r.effects]
    ELSE r

\* A streaming dispatch that stores a Task under the task id of the stream.
Streaming_handle_json_rpc_storing_task(agent, tasks, request, k) ==
    LET data == request.body IN
    IF data.kind = "malformed"
    THEN [response |-> Unhandled("UnboundLocalError"), tasks |-> tasks, effects |-> NoEffects]
    ELSE IF data.kind = "nondict"
    THEN [response |-> Unhandled("AttributeError"), tasks |-> tasks, effects |-> NoEffects]
    ELSE IF data.method = "message/stream"
    THEN [response |-> SseResponse,
          tasks |-> store_task(tasks, make_task(Uuid(k, 1), Uuid(k, 2), NoMessage, NoMessage)),
          effects |-> NoEffects]
    ELSE streaming_except(data, Base_handle_json_rpc(agent, tasks, request, k))

\* How many requests the streaming agent takes in one behaviour.
MaxStreams == 2

\* The generator object generate_stream() of the k-th request: how many
\* events it has yielded, and whether it has returned.
Generator(data, k) == [data |-> data, k |-> k, yielded |-> 0, done |-> FALSE]

\* A generator that never gets past the event it marked final.
resume_generator_stalling(g) ==
    IF g.yielded < Len(generate_stream(g.data, g.k)) - 1
    THEN [g EXCEPT !.yielded = g.yielded + 1]
    ELSE g

\* The server asks the generator for its next item: generate_stream runs
\* (through asyncio.sleep(1) before a stage) up to its next yield, or to
\* its end.
resume_generator(g) ==
    IF g.yielded < Len(generate_stream(g.data, g.k))
    THEN [g EXCEPT !.yielded = g.yielded + 1]
    ELSE [g EXCEPT !.done = TRUE]

\* The events sent on the connection so far.
sent_events(g) == SubSeq(generate_stream(g.data, g.k), 1, g.yielded)

\* StreamingA2AAgent.handle_json_rpc.  A malformed body leaves `data`
\* unassigned and a body that is no object has no get: the except handler's
\* data.get("id") raises in both cases.
Streaming_handle_json_rpc(agent, tasks, request, k) ==
    LET data == request.body IN
    IF data.kind = "malformed"
    THEN [response |-> Unhandled("UnboundLocalError"), tasks |-> tasks, effects |-> NoEffects]
    ELSE IF data.kind = "nondict"
    THEN [response |-> Unhandled("AttributeError"), tasks |-> tasks, effects |-> NoEffects]
    ELSE IF data.method = "message/stream"
    THEN [response |-> SseResponse, tasks |-> tasks, effects |-> NoEffects]
    ELSE streaming_except(data, Base_handle_json_rpc(agent, tasks, request, k))

\* A route that takes the streaming dispatch on every agent.
handle_json_rpc_streaming_everywhere(agent, tasks, request, k) ==
    Streaming_handle_json_rpc(agent, tasks, request, k)

\* The handle_json_rpc the route of the agent calls.
handle_json_rpc(agent, tasks, request, k) ==
    IF agent.cls = "Secure" THEN Secure_handle_json_rpc(agent, tasks, request, k)
    ELSE IF agent.cls = "Streaming" THEN Streaming_handle_json_rpc(agent, tasks, request, k)
    ELSE Base_handle_json_rpc(agent, tasks, request, k)

---------------------------------------------------------------------------
\* HospitalCoordinatorAgent

\* How many requests the coordinator receives in one behaviour.
MaxCoordinatorRequests == 2

\* A pipeline that books before it looks for a doctor.
pipeline_booking_first ==
    <<[step |-> "Checking patient information...", url |-> "http://localhost:8001/a2a/v1",
       prefix |-> "lookup patient in: "],
      [step |-> "Booking appointment...", url |-> "http://localhost:8003/a2a/v1",
       prefix |-> "book appointment: "],
      [step |-> "Finding available doctors...", url |-> "http://localhost:8002/a2a/v1",
       prefix |-> "find doctors for: "]>>

\* The pipeline: the step description appended to `steps`, the agent
\* called and the prefix put before the user's text.
pipeline ==
    <<[step |-> "Checking patient information...", url |-> "http://localhost:8001/a2a/v1",
       prefix |-> "lookup patient in: "],
      [step |-> "Finding available doctors...", url |-> "http://localhost:8002/a2a/v1",
       prefix |-> "find doctors for: "],
      [step |-> "Booking appointment...", url |-> "http://localhost:8003/a2a/v1",
       prefix |-> "book appointment: "]>>

\* The payload call_agent posts; it draws two uuids.
call_agent_payload(agent_url, message_prefix, user_message, k, draws) ==
    [url |-> agent_url, id |-> Uuid(k, draws + 1), method |-> "message/send",
     message |-> Message("user", <<TextPart(<<message_prefix>> \o user_message)>>,
                         Uuid(k, draws + 2), None, None)]

\* What call_agent gives back: response.json() of a downstream success
\* envelope or error envelope, or an exception (a timeout of the client, a
\* connection error, a body that is no JSON).
DownstreamResult(payload) ==
    Envelope({"jsonrpc", "id", "result"}, payload.id,
             [kind |-> "task", state |-> "completed", by |-> payload.url], NoError)

DownstreamError(payload) ==
    Envelope({"jsonrpc", "id", "error"}, payload.id, NoTask,
             [code |-> -32603, message |-> "Internal error: ", exc |-> "", data |-> {}])

\* Every exception of the call (a timeout, a connection error) is caught by
\* the same except clause, which only reads its text: one stands for all.
CallOutcomes == {"result", "error", "ReadTimeout"}

\* await client.post(agent_url, json=payload) of the k-th request: the call
\* is on the wire until it ends.
post(calls, k, payload) ==
    LET made == IF k \in DOMAIN calls THEN calls[k] ELSE <<>>
    IN  (k :> Append(made, [payload |-> payload, outcome |-> "pending"])) @@ calls

\* The outstanding call of the k-th request ends with `outcome`.
post_ends(calls, k, outcome) ==
    [calls EXCEPT ![k][Len(calls[k])].outcome = outcome]

\* response.get("result", {}) of a downstream response.
result_of(response) ==
    IF "result" \in response.keys THEN <<response.result>> ELSE <<>>

\* process_message up to its first outbound call: the text is read outside
\* the try block, so an exception of that line leaves the handler.
coordinator_begin(request, message, task_id, context_id, k) ==
    LET um == user_message_of(message) IN
    IF um.raised THEN [raised |-> TRUE, exc |-> um.exc, flight |-> <<>>]
    ELSE [raised |-> FALSE, exc |-> "",
          flight |-> << [request |-> request, message |-> message, task_id |-> task_id,
                         context_id |-> context_id, user_message |-> um.text,
                         steps |-> <<pipeline[1].step>>, pc |-> 1, responses |-> <<>>,
                         call |-> call_agent_payload(pipeline[1].url, pipeline[1].prefix,
                                                     um.text, k, 2),
                         draws |-> 4] >>]

\* The reply of the except branch (lines 767-774).
workflow_error_message(f, exc, k) ==
    Message("agent", <<TextPart(<<"Error in appointment booking workflow: ", exc>>)>>,
            Uuid(k, f.draws + 1), f.task_id, f.context_id)

\* A reply that files the patient's result under the booking and the
\* booking's under the patient.
workflow_completed_message_swapped(f, responses, k) ==
    Message("agent",
            <<TextPart(<<"Appointment booking workflow completed successfully!">>),
              DataPart([workflow_steps |-> f.steps,
                        patient_info |-> result_of(responses[3]),
                        doctor_availability |-> result_of(responses[2]),
                        booking_result |-> result_of(responses[1]),
                        status |-> "completed"])>>,
            Uuid(k, f.draws + 1), f.task_id, f.context_id)

\* The reply after the third call returned (lines 747-765).
workflow_completed_message(f, responses, k) ==
    Message("agent",
            <<TextPart(<<"Appointment booking workflow completed successfully!">>),
              DataPart([workflow_steps |-> f.steps,
                        patient_info |-> result_of(responses[1]),
                        doctor_availability |-> result_of(responses[2]),
                        booking_result |-> result_of(responses[3]),
                        status |-> "completed"])>>,
            Uuid(k, f.draws + 1), f.task_id, f.context_id)

\* The next step of the pipeline: its description is appended and its call
\* is prepared.
next_step(f, responses, k) ==
    [f EXCEPT !.responses = responses,
              !.pc = f.pc + 1,
              !.steps = Append(f.steps, pipeline[f.pc + 1].step),
              !.call = call_agent_payload(pipeline[f.pc + 1].url, pipeline[f.pc + 1].prefix,
                                          f.user_message, k, f.draws),
              !.draws = f.draws + 2]

\* A handler that goes on with the next step after a call that raised.
coordinator_resume_continuing(f, outcome, k) ==
    LET response == IF outcome = "result" THEN DownstreamResult(f.call)
                    ELSE DownstreamError(f.call)
        responses == Append(f.responses, response)
    IN  IF f.pc < Len(pipeline)
        THEN [done |-> FALSE, message |-> NoMessage, flight |-> next_step(f, responses, k)]
        ELSE IF outcome \in {"result", "error"}
        THEN [done |-> TRUE, message |-> workflow_completed_message(f, responses, k),
              flight |-> f]
        ELSE [done |-> TRUE, message |-> workflow_error_message(f, outcome, k), flight |-> f]

\* A handler that posts a call that raised once more.
coordinator_resume_retrying(f, outcome, k) ==
    IF outcome \notin {"result", "error"}
    THEN IF f.draws = 2 * f.pc + 2
         THEN [done |-> FALSE, message |-> NoMessage,
               flight |-> [f EXCEPT !.call = call_agent_payload(pipeline[f.pc].url,
                                              pipeline[f.pc].prefix, f.user_message, k, f.draws),
                                    !.draws = f.draws + 2]]
         ELSE [done |-> TRUE, message |-> workflow_error_message(f, outcome, k), flight |-> f]
    ELSE LET response == IF outcome = "result" THEN DownstreamResult(f.call)
                         ELSE DownstreamError(f.call)
             responses == Append(f.responses, response)
         IN  IF f.pc = Len(pipeline)
             THEN [done |-> TRUE, message |-> workflow_completed_message(f, responses, k),
                   flight |-> f]
             ELSE [done |-> FALSE, message |-> NoMessage,
                   flight |-> next_step(f, responses, k)]

\* process_message resumed when the outstanding call of the k-th request
\* ends with `outcome`: either the handler returns its reply, or it
\* appends the next step and suspends in the next call.
coordinator_resume(f, outcome, k) ==
    IF outcome \notin {"result", "error"}
    THEN [done |-> TRUE, message |-> workflow_error_message(f, outcome, k), flight |-> f]
    ELSE LET response == IF outcome = "result" THEN DownstreamResult(f.call)
                         ELSE DownstreamError(f.call)
             responses == Append(f.responses, response)
         IN  IF f.pc = Len(pipeline)
             THEN [done |-> TRUE, message |-> workflow_completed_message(f, responses, k),
                   flight |-> f]
             ELSE [done |-> FALSE, message |-> NoMessage,
                   flight |-> next_step(f, responses, k)]

\* A handler that lets the exception of a failed call escape: the request
\* is answered with an internal error and no Task is stored.
finish_message_send_raising(tasks, f, response_message) ==
    IF /\ response_message.parts # <<>>
       /\ response_message.parts[1].text[1] = "Error in appointment booking workflow: "
    THEN [response |-> JsonResponse(internal_error_envelope(f.request.body.id,
                                        response_message.parts[1].text[2])),
          tasks |-> tasks]
    ELSE [response |-> JsonResponse(success_envelope(f.request.body.id,
                           make_task(f.task_id, f.context_id, f.message, response_message))),
          tasks |-> store_task(tasks, make_task(f.task_id, f.context_id, f.message,
                                                response_message))]

\* The rest of handle_message_send and of handle_json_rpc once
\* process_message returned: the Task is built and stored, and the success
\* envelope is returned.
finish_message_send(tasks, f, response_message) ==
    LET task == make_task(f.task_id, f.context_id, f.message, response_message)
    IN  [response |-> JsonResponse(success_envelope(f.request.body.id, task)),
         tasks |-> store_task(tasks, task)]

\* BaseA2AAgent.handle_json_rpc of the coordinator up to the point where it
\* answers or suspends in the first outbound call.
Coordinator_handle_json_rpc(tasks, request, k) ==
    LET data == request.body IN
    IF data.kind # "dict"
    THEN [suspended |-> FALSE, response |-> Unhandled("UnboundLocalError"), flight |-> <<>>]
    ELSE IF data.method = "message/send"
    THEN LET b == begin_message_send(data.params, k) IN
         IF b.raised
         THEN [suspended |-> FALSE, flight |-> <<>>,
               response |-> JsonResponse(internal_error_envelope(data.id, b.exc))]
         ELSE LET c == coordinator_begin(request, b.message, b.task_id, b.context_id, k) IN
              IF c.raised
              THEN [suspended |-> FALSE, flight |-> <<>>,
                    response |-> JsonResponse(internal_error_envelope(data.id, c.exc))]
              ELSE [suspended |-> TRUE, flight |-> c.flight, response |-> NoResponse]
    ELSE [suspended |-> FALSE, flight |-> <<>>,
          response |-> JsonResponse(method_not_found_envelope(data.id))]

---------------------------------------------------------------------------
\* PatientRegistrationAgent

\* How many requests the patient agent receives in one behaviour.
MaxPatientRequests == 3

PatientAgent ==
    Agent("Base", "patient", FALSE,
          "Patient Registration Agent",
          "Handles patient registration, verification, and lookup services for the hospital system",
          8001,
          << AgentSkill("patient-registration", "Patient Registration",
                        "Register new patients and validate existing patient information",
                        <<"registration", "patient", "verification">>,
                        <<"Register a new patient with name John Doe, email john@email.com, phone 123-456-7890",
                          "Verify patient information for medical record number MR123456">>),
             AgentSkill("patient-lookup", "Patient Lookup",
                        "Look up existing patient records and information",
                        <<"lookup", "patient", "records">>,
                        <<"Find patient by email: john@email.com",
                          "Look up patient by medical record number: MR123456">>) >>)

\* The fragments of a text that hold a colon, an "@", or "MR".
ColonFragments == {"name:", "email:", "phone:"}

AtFragments == {"ann@x.org", "bob@x.org"}

\* f"MR{n:06d}"
format_mrn(n) ==
    CASE n = 1 -> "MR000001" [] n = 2 -> "MR000002" [] n = 3 -> "MR000003"
      [] n = 4 -> "MR000004" [] n = 5 -> "MR000005" [] OTHER -> "MR000006"

MrFragments == {"MR"} \cup {format_mrn(n) : n \in 1..6}

\* user_message.split('\n'): the lines of the text, "\n" being a fragment
\* of its own.
RECURSIVE split_lines(_)
split_lines(text) ==
    IF \A i \in DOMAIN text : text[i] # "\n" THEN <<text>>
    ELSE LET n == CHOOSE i \in DOMAIN text :
                      text[i] = "\n" /\ \A j \in 1..(i - 1) : text[j] # "\n"
         IN  <<SubSeq(text, 1, n - 1)>> \o split_lines(SubSeq(text, n + 1, Len(text)))

\* line.split(":", 1)[1].strip(): what follows the first colon of the line.
after_first_colon(line) ==
    LET n == CHOOSE i \in DOMAIN line :
                 line[i] \in ColonFragments /\ \A j \in 1..(i - 1) : line[j] \notin ColonFragments
    IN  SubSeq(line, n + 1, Len(line))

\* The loop over the lines of handle_registration: a line sets the first of
\* name, email, phone whose key it holds, and a later line overwrites an
\* earlier one.  <<>> stands for a key that is not in patient_data.
RECURSIVE parse_patient_data(_, _)
parse_patient_data(lines, patient_data) ==
    IF lines = <<>> THEN patient_data
    ELSE LET line == Head(lines)
             next == IF Contains(line, "name:")
                     THEN [patient_data EXCEPT !.name = <<after_first_colon(line)>>]
                     ELSE IF Contains(line, "email:")
                     THEN [patient_data EXCEPT !.email = <<after_first_colon(line)>>]
                     ELSE IF Contains(line, "phone:")
                     THEN [patient_data EXCEPT !.phone = <<after_first_colon(line)>>]
                     ELSE patient_data
         IN  parse_patient_data(Tail(lines), next)

\* Patient(id, name, email, phone, medical_record_number)
Patient(id, name, email, phone, mrn) ==
    [id |-> id, name |-> name, email |-> email, phone |-> phone,
     medical_record_number |-> mrn]

\* The three dicts of the agent.
PatientDb(patients, patient_by_email, patient_by_mrn) ==
    [patients |-> patients, patient_by_email |-> patient_by_email,
     patient_by_mrn |-> patient_by_mrn]

\* A number taken from the size of the email index.
next_mrn_by_email(db) == format_mrn(Cardinality(DOMAIN db.patient_by_email) + 1)

\* mrn = f"MR{len(self.patients) + 1:06d}"
next_mrn(db) == format_mrn(Cardinality(DOMAIN db.patients) + 1)

\* PatientRegistrationAgent.handle_registration
handle_registration(db, user_message, task_id, context_id, k) ==
    LET patient_data == parse_patient_data(split_lines(user_message),
                                           [name |-> <<>>, email |-> <<>>, phone |-> <<>>])
        patient_id == Uuid(k, 3)
        mrn == next_mrn(db)
        patient == Patient(patient_id, patient_data.name[1], patient_data.email[1],
                           patient_data.phone[1], mrn)
    IN  IF patient_data.name = <<>> \/ patient_data.email = <<>> \/ patient_data.phone = <<>>
        THEN [raised |-> FALSE, exc |-> "", db |-> db,
              message |-> Message("agent",
                  <<TextPart(<<"Please provide patient name, email, and phone number for registration.">>)>>,
                  Uuid(k, 3), task_id, context_id)]
        ELSE [raised |-> FALSE, exc |-> "",
              db |-> PatientDb((patient_id :> patient) @@ db.patients,
                               (patient.email :> patient_id) @@ db.patient_by_email,
                               (mrn :> patient_id) @@ db.patient_by_mrn),
              message |-> Message("agent",
                  <<TextPart(<<"Patient registered successfully!">>),
                    DataPart([patient_id |-> patient_id, medical_record_number |-> mrn,
                              name |-> patient.name, status |-> "registered"])>>,
                  Uuid(k, 4), task_id, context_id)]

\* The reply of handle_lookup for the id the index gave (<<>> for None).
lookup_reply(db, found, task_id, context_id, k) ==
    IF found # <<>> /\ found[1] \in DOMAIN db.patients
    THEN Message("agent", <<TextPart(<<"Patient found!">>), DataPart(db.patients[found[1]])>>,
                 Uuid(k, 3), task_id, context_id)
    ELSE Message("agent", <<TextPart(<<"Patient not found in our records.">>)>>,
                 Uuid(k, 3), task_id, context_id)

\* "MR" + token for a token of six digits; <<>> for any other token, which
\* gives a string that is no medical record number.
mrn_of_token(token) ==
    CASE token = "000001" -> <<"MR000001">> [] token = "000002" -> <<"MR000002">>
      [] token = "000003" -> <<"MR000003">> [] token = "000004" -> <<"MR000004">>
      [] token = "000005" -> <<"MR000005">> [] token = "000006" -> <<"MR000006">>
      [] OTHER -> <<>>

\* PatientRegistrationAgent.handle_lookup: by the token around the first
\* "@", else by "MR" + user_message.split("MR")[1].split()[0], the first
\* word between the first "MR" and the next one.  That word is the rest of
\* the fragment that holds the first "MR", or, after a bare "MR", the next
\* fragment that is no line break; when the text ends or the next "MR"
\* comes before such a word, [0] raises IndexError.
handle_lookup(db, user_message, task_id, context_id, k) ==
    LET ats == {i \in DOMAIN user_message : user_message[i] \in AtFragments}
        mrs == {i \in DOMAIN user_message : user_message[i] \in MrFragments}
        first(S) == CHOOSE i \in S : \A j \in S : i <= j
        by_mrn(mrn) ==
            LET found == IF mrn # <<>> /\ mrn[1] \in DOMAIN db.patient_by_mrn
                         THEN <<db.patient_by_mrn[mrn[1]]>> ELSE <<>>
            IN  [raised |-> FALSE, exc |-> "", db |-> db,
                 message |-> lookup_reply(db, found, task_id, context_id, k)]
    IN  IF ats # {}
        THEN LET email == <<user_message[first(ats)]>>
                 found == IF email \in DOMAIN db.patient_by_email
                          THEN <<db.patient_by_email[email]>> ELSE <<>>
             IN  [raised |-> FALSE, exc |-> "", db |-> db,
                  message |-> lookup_reply(db, found, task_id, context_id, k)]
        ELSE IF mrs # {}
        THEN LET i == first(mrs)
                 later == {j \in mrs : j > i}
                 stop == IF later = {} THEN Len(user_message) + 1 ELSE first(later)
                 words == {j \in (i + 1)..(stop - 1) : user_message[j] # "\n"}
             IN  IF user_message[i] # "MR" THEN by_mrn(<<user_message[i]>>)
                 ELSE IF words = {}
                 THEN [raised |-> TRUE, exc |-> "IndexError", db |-> db, message |-> NoMessage]
                 ELSE by_mrn(mrn_of_token(user_message[first(words)]))
        ELSE [raised |-> FALSE, exc |-> "", db |-> db,
              message |-> Message("agent",
                  <<TextPart(<<"Please provide either an email address or medical record number for lookup.">>)>>,
                  Uuid(k, 3), task_id, context_id)]

\* PatientRegistrationAgent.process_message
Patient_process_message(db, message, task_id, context_id, k) ==
    LET um == user_message_of(message) IN
    IF um.raised THEN [raised |-> TRUE, exc |-> um.exc, db |-> db, message |-> NoMessage]
    ELSE IF Contains(um.text, "register")
    THEN handle_registration(db, um.text, task_id, context_id, k)
    ELSE IF Contains(um.text, "lookup") \/ Contains(um.text, "find")
    THEN handle_lookup(db, um.text, task_id, context_id, k)
    ELSE [raised |-> FALSE, exc |-> "", db |-> db,
          message |-> Message("agent",
              <<TextPart(<<"I can help you with patient registration and lookup. Please specify what you'd like to do.">>)>>,
              Uuid(k, 3), task_id, context_id)]

\* BaseA2AAgent.handle_json_rpc and handle_message_send of the patient
\* agent: the handler runs without suspending and no statement after its
\* writes to the three dicts can raise.
Patient_handle_json_rpc(db, tasks, request, k) ==
    LET data == request.body IN
    IF data.kind # "dict"
    THEN [response |-> Unhandled("UnboundLocalError"), tasks |-> tasks, db |-> db]
    ELSE IF data.method = "message/send"
    THEN LET b == begin_message_send(data.params, k) IN
         IF b.raised
         THEN [response |-> JsonResponse(internal_error_envelope(data.id, b.exc)),
               tasks |-> tasks, db |-> db]
         ELSE LET r == Patient_process_message(db, b.message, b.task_id, b.context_id, k) IN
              IF r.raised
              THEN [response |-> JsonResponse(internal_error_envelope(data.id, r.exc)),
                    tasks |-> tasks, db |-> db]
              ELSE LET task == make_task(b.task_id, b.context_id, b.message, r.message)
                   IN  [response |-> JsonResponse(success_envelope(data.id, task)),
                        tasks |-> store_task(tasks, task), db |-> r.db]
    ELSE [response |-> JsonResponse(method_not_found_envelope(data.id)),
          tasks |-> tasks, db |-> db]

---------------------------------------------------------------------------
\* AppointmentBookingAgent

\* How many requests the booking agent receives in one behaviour.
MaxBookingRequests == 3

BookingAgent ==
    Agent("Base", "booking", FALSE,
          "Appointment Booking Agent",
          "Handles appointment booking, modification, and cancellation services",
          8003,
          << AgentSkill("book-appointment", "Book Appointment",
                        "Book new appointments for patients with available doctors",
                        <<"booking", "appointment", "schedule">>,
                        <<"Book appointment for patient MR123456 with Dr. Johnson on 2024-01-15 at 10:00",
                          "Schedule appointment for john@email.com with cardiology department">>),
             AgentSkill("appointment-management", "Appointment Management",
                        "View, modify, or cancel existing appointments",
                        <<"appointment", "management", "cancel", "modify">>,
                        <<"View appointments for patient MR123456",
                          "Cancel appointment ID APT123456">>) >>)

\* f"APT{n:06d}"
format_appointment_id(n) ==
    CASE n = 1 -> "APT000001" [] n = 2 -> "APT000002" [] n = 3 -> "APT000003"
      [] n = 4 -> "APT000004" [] n = 5 -> "APT000005" [] OTHER -> "APT000006"

\* f"{n}"
decimal(n) ==
    CASE n = 0 -> "0" [] n = 1 -> "1" [] n = 2 -> "2" [] n = 3 -> "3" [] n = 4 -> "4"
      [] n = 5 -> "5" [] OTHER -> "6"

\* Appointment(...) as handle_booking fills it.
Appointment(id, status) ==
    [id |-> id, patient_id |-> "patient_123", doctor_id |-> "doctor_456",
     datetime_slot |-> "2024-01-15T10:00:00", department |-> "Cardiology",
     status |-> status, notes |-> "Regular checkup"]

\* AppointmentBookingAgent.handle_booking
handle_booking(appointments, user_message, task_id, context_id, k) ==
    LET appointment_id == format_appointment_id(Cardinality(DOMAIN appointments) + 1)
        appointment == Appointment(appointment_id, "scheduled")
    IN  [raised |-> FALSE, exc |-> "",
         appointments |-> (appointment_id :> appointment) @@ appointments,
         message |-> Message("agent",
             <<TextPart(<<"Appointment booked successfully!">>), DataPart(appointment)>>,
             Uuid(k, 3), task_id, context_id)]

\* AppointmentBookingAgent.handle_view_appointments
handle_view_appointments(appointments, user_message, task_id, context_id, k) ==
    [raised |-> FALSE, exc |-> "", appointments |-> appointments,
     message |-> Message("agent",
         <<TextPart(<<"Found ", decimal(Cardinality(DOMAIN appointments)), " appointments:">>),
           DataPart([appointments |-> appointments])>>,
         Uuid(k, 3), task_id, context_id)]

\* The first id of self.appointments, in the order the appointments were
\* booked, that the text names; <<>> when it names none.
named_appointment(appointments, user_message) ==
    LET named == { n \in 1..Cardinality(DOMAIN appointments) :
                     /\ format_appointment_id(n) \in DOMAIN appointments
                     /\ Contains(user_message, format_appointment_id(n)) }
    IN  IF named = {} THEN <<>>
        ELSE <<format_appointment_id(CHOOSE n \in named : \A m \in named : n <= m)>>

\* A cancellation that deletes the appointment.
handle_cancellation_deleting(appointments, user_message, task_id, context_id, k) ==
    LET found == named_appointment(appointments, user_message) IN
    IF found # <<>>
    THEN [raised |-> FALSE, exc |-> "",
          appointments |-> [a \in DOMAIN appointments \ {found[1]} |-> appointments[a]],
          message |-> Message("agent",
              <<TextPart(<<"Appointment ", found[1], " has been cancelled.">>)>>,
              Uuid(k, 3), task_id, context_id)]
    ELSE [raised |-> FALSE, exc |-> "", appointments |-> appointments,
          message |-> Message("agent",
              <<TextPart(<<"Please provide a valid appointment ID to cancel.">>)>>,
              Uuid(k, 3), task_id, context_id)]

\* AppointmentBookingAgent.handle_cancellation
handle_cancellation(appointments, user_message, task_id, context_id, k) ==
    LET found == named_appointment(appointments, user_message) IN
    IF found # <<>>
    THEN [raised |-> FALSE, exc |-> "",
          appointments |-> [appointments EXCEPT ![found[1]].status = "cancelled"],
          message |-> Message("agent",
              <<TextPart(<<"Appointment ", found[1], " has been cancelled.">>)>>,
              Uuid(k, 3), task_id, context_id)]
    ELSE [raised |-> FALSE, exc |-> "", appointments |-> appointments,
          message |-> Message("agent",
              <<TextPart(<<"Please provide a valid appointment ID to cancel.">>)>>,
              Uuid(k, 3), task_id, context_id)]

\* AppointmentBookingAgent.process_message
Booking_process_message(appointments, message, task_id, context_id, k) ==
    LET um == user_message_of(message) IN
    IF um.raised
    THEN [raised |-> TRUE, exc |-> um.exc, appointments |-> appointments, message |-> NoMessage]
    ELSE IF Contains(um.text, "book") \/ Contains(um.text, "schedule")
    THEN handle_booking(appointments, um.text, task_id, context_id, k)
    ELSE IF Contains(um.text, "view") \/ Contains(um.text, "list")
    THEN handle_view_appointments(appointments, um.text, task_id, context_id, k)
    ELSE IF Contains(um.text, "cancel")
    THEN handle_cancellation(appointments, um.text, task_id, context_id, k)
    ELSE [raised |-> FALSE, exc |-> "", appointments |-> appointments,
          message |-> Message("agent",
              <<TextPart(<<"I can help you book appointments, view existing appointments, or cancel appointments. What would you like to do?">>)>>,
              Uuid(k, 3), task_id, context_id)]

\* BaseA2AAgent.handle_json_rpc and handle_message_send of the booking
\* agent, whose handler runs without suspending.
Booking_handle_json_rpc(appointments, tasks, request, k) ==
    LET data == request.body IN
    IF data.kind # "dict"
    THEN [response |-> Unhandled("UnboundLocalError"), tasks |-> tasks,
          appointments |-> appointments]
    ELSE IF data.method = "message/send"
    THEN LET b == begin_message_send(data.params, k) IN
         IF b.raised
         THEN [response |-> JsonResponse(internal_error_envelope(data.id, b.exc)),
               tasks |-> tasks, appointments |-> appointments]
         ELSE LET r == Booking_process_message(appointments, b.message, b.task_id,
                                               b.context_id, k) IN
              IF r.raised
              THEN [response |-> JsonResponse(internal_error_envelope(data.id, r.exc)),
                    tasks |-> tasks, appointments |-> appointments]
              ELSE LET task == make_task(b.task_id, b.context_id, b.message, r.message)
                   IN  [response |-> JsonResponse(success_envelope(data.id, task)),
                        tasks |-> store_task(tasks, task), appointments |-> r.appointments]
    ELSE [response |-> JsonResponse(method_not_found_envelope(data.id)),
          tasks |-> tasks, appointments |-> appointments]

---------------------------------------------------------------------------
\* The agent as a state machine

VARIABLES
    agent,          \* the agent constructed
    tasks,          \* self.tasks: task id -> Task
    requests_seen,  \* how many requests the route has accepted so far
    last_request,   \* the request answered last
    last_response,  \* and what handle_json_rpc returned for it
    inflight,       \* the coordinator's requests suspended in an outbound call,
                    \* by the number of the request
    calls,          \* the outbound calls the coordinator made for each request,
                    \* in the order it posted them, with how each one ended
    card,           \* the document the last GET /.well-known/agent.json returned
    patients,           \* self.patients of the patient agent: patient id -> Patient
    patient_by_email,   \* self.patient_by_email: email -> patient id
    patient_by_mrn,     \* self.patient_by_mrn: medical record number -> patient id
    appointments,       \* self.appointments of the booking agent: id -> Appointment
    streams,            \* the generators of the streams opened, by the number of
                        \* the request
    audit_log,          \* self.audit_log of HIPAACompliantPatientAgent
    encrypted_patients  \* self.encrypted_patients: patient id -> encrypted record

patient_vars == <<patients, patient_by_email, patient_by_mrn>>

hipaa_vars == <<audit_log, encrypted_patients>>

vars == <<agent, tasks, requests_seen, last_request, last_response, inflight, calls, card,
          patient_vars, appointments, streams, hipaa_vars>>

NoRequest == HttpRequest(NoHeaders, [BodyMalformed EXCEPT !.kind = "none"])

\* self.tasks = {} of BaseA2AAgent.__init__
Init ==
    /\ agent \in Agents
    /\ tasks = <<>>
    /\ requests_seen = 0
    /\ last_request = NoRequest
    /\ last_response = NoResponse
    /\ inflight = <<>>
    /\ calls = <<>>
    /\ card = NoCard
    /\ patients = <<>>
    /\ patient_by_email = <<>>
    /\ patient_by_mrn = <<>>
    /\ appointments = <<>>
    /\ streams = <<>>
    /\ audit_log = <<>>
    /\ encrypted_patients = <<>>

\* The headers a caller sends: only SecureA2AAgent reads them.
HeadersFor(a) == IF a.cls = "Secure" THEN Headers ELSE {NoHeaders}

\* The route has run handle_json_rpc on the k-th request and `out` is what
\* it returned and left: the response goes to the caller.
\* handle_streaming_message returns the StreamingResponse around a generator
\* that has not run yet; its events are sent afterwards, one by one.
Answer(request, k, out) ==
    /\ tasks' = out.tasks
    /\ last_request' = request
    /\ last_response' = out.response
    /\ streams' = IF out.response.transport = "sse"
                  THEN (k :> Generator(request.body, k)) @@ streams
                  ELSE streams
    /\ audit_log' = audit_log \o out.effects.audit
    /\ encrypted_patients' = out.effects.encrypted @@ encrypted_patients
    /\ requests_seen' = k
    /\ UNCHANGED <<agent, inflight, calls, card, patient_vars, appointments>>

\* POST /a2a/v1 on an agent whose handler does not suspend: the whole of
\* handle_json_rpc runs without another request being served in between.
HandleRpc ==
    /\ requests_seen < MaxRequests
    /\ \E h \in HeadersFor(agent), b \in Bodies :
         Answer(HttpRequest(h, b), requests_seen + 1,
                handle_json_rpc(agent, tasks, HttpRequest(h, b), requests_seen + 1))

\* The server takes the next event of the k-th stream, or finds the
\* generator exhausted and closes the connection.
StreamYield(k) ==
    /\ k \in DOMAIN streams
    /\ ~streams[k].done
    /\ streams' = [streams EXCEPT ![k] = resume_generator(streams[k])]
    /\ UNCHANGED <<agent, tasks, requests_seen, last_request, last_response, inflight, calls,
                   card, patient_vars, appointments, hipaa_vars>>

Next == HandleRpc \/ \E k \in 1..MaxRequests : StreamYield(k)

Spec == Init /\ [][Next]_vars

---------------------------------------------------------------------------
\* Discovery: callers fetch the capability document between the requests
\* they post.

\* One agent of each class that builds its own document.
DiscoveryAgents == {BaseAgent, SecureAgent, StreamingAgent}

InitDiscovery ==
    /\ agent \in DiscoveryAgents
    /\ tasks = <<>>
    /\ requests_seen = 0
    /\ last_request = NoRequest
    /\ last_response = NoResponse
    /\ inflight = <<>>
    /\ calls = <<>>
    /\ card = NoCard
    /\ patients = <<>>
    /\ patient_by_email = <<>>
    /\ patient_by_mrn = <<>>
    /\ appointments = <<>>
    /\ streams = <<>>
    /\ audit_log = <<>>
    /\ encrypted_patients = <<>>

\* GET /.well-known/agent.json
GetAgentCard ==
    /\ card' = get_agent_card_route(agent)
    /\ UNCHANGED <<agent, tasks, requests_seen, last_request, last_response, inflight, calls,
                   patient_vars, appointments, streams, hipaa_vars>>

NextDiscovery == HandleRpc \/ GetAgentCard \/ \E k \in 1..MaxRequests : StreamYield(k)

SpecDiscovery == InitDiscovery /\ [][NextDiscovery]_vars

---------------------------------------------------------------------------
\* The patient agent as a state machine

InitPatient ==
    /\ agent = PatientAgent
    /\ tasks = <<>>
    /\ requests_seen = 0
    /\ last_request = NoRequest
    /\ last_response = NoResponse
    /\ inflight = <<>>
    /\ calls = <<>>
    /\ card = NoCard
    /\ patients = <<>>
    /\ patient_by_email = <<>>
    /\ patient_by_mrn = <<>>
    /\ appointments = <<>>
    /\ streams = <<>>
    /\ audit_log = <<>>
    /\ encrypted_patients = <<>>

\* The texts sent to the patient agent: registrations (complete, with an
\* email already registered, without an email, with all keys on one line),
\* lookups (by email, by number, with a text ending in "MR", with "MR"
\* before a number and before its digits) and a greeting.
PatientTexts ==
    { <<"register", "\n", "name:", "ann", "\n", "email:", "ann@x.org", "\n", "phone:", "555">>,
      <<"register", "\n", "name:", "bob", "\n", "email:", "ann@x.org", "\n", "phone:", "556">>,
      <<"register", "\n", "name:", "cy", "\n", "phone:", "557">>,
      <<"register", "name:", "dee", "email:", "bob@x.org", "phone:", "558">>,
      <<"lookup", "ann@x.org">>,
      <<"find", "MR000002">>,
      <<"lookup", "MR">>,
      <<"lookup", "MR", "MR000001">>,
      <<"find", "MR", "000001">>,
      <<"hello">> }

\* POST /a2a/v1 on the patient agent.
PatientHandleRpc ==
    /\ requests_seen < MaxPatientRequests
    /\ \E t \in PatientTexts :
         LET request == HttpRequest(NoHeaders,
                            BodyDict(Client(1), "message/send",
                                ParamsDict(Message("user", <<TextPart(t)>>, Client(9), None, None))))
             out == Patient_handle_json_rpc(PatientDb(patients, patient_by_email, patient_by_mrn),
                                            tasks, request, requests_seen + 1)
         IN  /\ tasks' = out.tasks
             /\ patients' = out.db.patients
             /\ patient_by_email' = out.db.patient_by_email
             /\ patient_by_mrn' = out.db.patient_by_mrn
             /\ last_request' = request
             /\ last_response' = out.response
    /\ requests_seen' = requests_seen + 1
    /\ UNCHANGED <<agent, inflight, calls, card, appointments, streams, hipaa_vars>>

NextPatient == PatientHandleRpc

SpecPatient == InitPatient /\ [][NextPatient]_vars

---------------------------------------------------------------------------
\* The booking agent as a state machine

InitBooking ==
    /\ agent = BookingAgent
    /\ tasks = <<>>
    /\ requests_seen = 0
    /\ last_request = NoRequest
    /\ last_response = NoResponse
    /\ inflight = <<>>
    /\ calls = <<>>
    /\ card = NoCard
    /\ patients = <<>>
    /\ patient_by_email = <<>>
    /\ patient_by_mrn = <<>>
    /\ appointments = <<>>
    /\ streams = <<>>
    /\ audit_log = <<>>
    /\ encrypted_patients = <<>>

\* The texts sent to the booking agent: a booking, cancellations (of the
\* first and of the second appointment, of one that does not exist, and one
\* that says "book"), the list and a greeting.
BookingTexts ==
    { <<"book", "cardiology">>,
      <<"cancel", "APT000001">>,
      <<"cancel", "APT000002">>,
      <<"cancel", "APT000009">>,
      <<"cancel", "my", "book", "APT000001">>,
      <<"view">>,
      <<"hello">> }

\* POST /a2a/v1 on the booking agent.
BookingHandleRpc ==
    /\ requests_seen < MaxBookingRequests
    /\ \E t \in BookingTexts :
         LET request == HttpRequest(NoHeaders,
                            BodyDict(Client(1), "message/send",
                                ParamsDict(Message("user", <<TextPart(t)>>, Client(9), None, None))))
             out == Booking_handle_json_rpc(appointments, tasks, request, requests_seen + 1)
         IN  /\ tasks' = out.tasks
             /\ appointments' = out.appointments
             /\ last_request' = request
             /\ last_response' = out.response
    /\ requests_seen' = requests_seen + 1
    /\ UNCHANGED <<agent, inflight, calls, card, patient_vars, streams, hipaa_vars>>

NextBooking == BookingHandleRpc

SpecBooking == InitBooking /\ [][NextBooking]_vars

---------------------------------------------------------------------------
\* The streaming agent as a state machine: the route returns the
\* StreamingResponse at once, and the server then takes the events from the
\* generator one by one, other requests being served in between.

InitStream ==
    /\ agent = StreamingAgent
    /\ tasks = <<>>
    /\ requests_seen = 0
    /\ last_request = NoRequest
    /\ last_response = NoResponse
    /\ inflight = <<>>
    /\ calls = <<>>
    /\ card = NoCard
    /\ patients = <<>>
    /\ patient_by_email = <<>>
    /\ patient_by_mrn = <<>>
    /\ appointments = <<>>
    /\ streams = <<>>
    /\ audit_log = <<>>
    /\ encrypted_patients = <<>>

StreamBodies ==
    { BodyMalformed,
      BodyDict(None, "message/stream", ParamsAbsent),
      BodyDict(Client(1), "message/stream",
               ParamsDict(Message("user", <<TextPart(<<"hello">>)>>, Client(9), None, None))),
      BodyDict(Client(2), "message/send",
               ParamsDict(Message("user", <<TextPart(<<"hello">>)>>, Client(9), None, None))) }

\* POST /a2a/v1 on the streaming agent, as in HandleRpc.
StreamReceive ==
    /\ requests_seen < MaxStreams
    /\ \E b \in StreamBodies :
         Answer(HttpRequest(NoHeaders, b), requests_seen + 1,
                handle_json_rpc(agent, tasks, HttpRequest(NoHeaders, b), requests_seen + 1))

NextStream == StreamReceive \/ \E k \in 1..MaxStreams : StreamYield(k)

\* The event loop runs a generator that is ready: its sleep of one second
\* ends and the server, whose client stays connected, takes the next event.
FairStream == \A k \in 1..MaxStreams : WF_vars(StreamYield(k))

SpecStream == InitStream /\ [][NextStream]_vars /\ FairStream

---------------------------------------------------------------------------
\* The coordinator as a state machine: its handler suspends in every
\* outbound call, and other requests are served meanwhile.

InitCoordinator ==
    /\ agent = CoordinatorAgent
    /\ tasks = <<>>
    /\ requests_seen = 0
    /\ last_request = NoRequest
    /\ last_response = NoResponse
    /\ inflight = <<>>
    /\ calls = <<>>
    /\ card = NoCard
    /\ patients = <<>>
    /\ patient_by_email = <<>>
    /\ patient_by_mrn = <<>>
    /\ appointments = <<>>
    /\ streams = <<>>
    /\ audit_log = <<>>
    /\ encrypted_patients = <<>>

\* The bodies sent to the coordinator.
CoordinatorBodies ==
    { BodyMalformed,
      BodyDict(Client(1), "message/delete", ParamsAbsent),
      BodyDict(Client(1), "message/send", ParamsNonDict),
      BodyDict(Client(2), "message/send", ParamsAbsent),
      BodyDict(Client(2), "message/send",
               ParamsDict(Message("user", <<>>, Client(9), None, Client(7)))),
      BodyDict(Client(1), "message/send",
               ParamsDict(Message("user", <<TextPart(<<"hello">>)>>, Client(9), None, None))),
      BodyDict(Client(2), "message/send",
               ParamsDict(Message("user", <<TextPart(<<"book", "cardiology">>)>>, Client(9),
                                  None, Client(7)))) }

\* POST /a2a/v1 on the coordinator: the request is answered at once, or its
\* handler suspends in the call to the patient agent.
CoordinatorReceive ==
    /\ requests_seen < MaxCoordinatorRequests
    /\ \E b \in CoordinatorBodies :
         LET request == HttpRequest(NoHeaders, b)
             k == requests_seen + 1
             out == Coordinator_handle_json_rpc(tasks, request, k)
         IN  IF out.suspended
             THEN /\ inflight' = (k :> out.flight[1]) @@ inflight
                  /\ calls' = post(calls, k, out.flight[1].call)
                  /\ UNCHANGED <<last_request, last_response>>
             ELSE /\ last_request' = request
                  /\ last_response' = out.response
                  /\ UNCHANGED <<inflight, calls>>
    /\ requests_seen' = requests_seen + 1
    /\ UNCHANGED <<agent, tasks, card, patient_vars, appointments, streams, hipaa_vars>>

\* The outstanding call of a suspended request ends, and its handler runs
\* up to the next call or to the end of handle_json_rpc.
CallReturns ==
    \E k \in DOMAIN inflight, outcome \in CallOutcomes :
        LET r == coordinator_resume(inflight[k], outcome, k) IN
        IF r.done
        THEN LET out == finish_message_send(tasks, inflight[k], r.message) IN
             /\ tasks' = out.tasks
             /\ last_request' = inflight[k].request
             /\ last_response' = out.response
             /\ inflight' = [j \in DOMAIN inflight \ {k} |-> inflight[j]]
             /\ calls' = post_ends(calls, k, outcome)
             /\ UNCHANGED <<agent, requests_seen, card, patient_vars, appointments, streams,
                            hipaa_vars>>
        ELSE /\ inflight' = [inflight EXCEPT ![k] = r.flight]
             /\ calls' = post(post_ends(calls, k, outcome), k, r.flight.call)
             /\ UNCHANGED <<agent, tasks, requests_seen, last_request, last_response, card,
                            patient_vars, appointments, streams, hipaa_vars>>

NextCoordinator == CoordinatorReceive \/ CallReturns

SpecCoordinator == InitCoordinator /\ [][NextCoordinator]_vars

---------------------------------------------------------------------------
\* Properties of the dispatch and of the task table

Body == last_request.body

Reply == last_response.envelope

Answered == requests_seen > 0 /\ last_response.transport # "none"

\* The request passed the gate in front of the dispatch (there is one only
\* on SecureA2AAgent).
PassedGate == agent.cls # "Secure" \/ authenticate_request(agent, last_request.headers)

IsSuccess == last_response.transport = "json" /\ "result" \in Reply.keys

IsError(code) ==
    /\ last_response.transport = "json"
    /\ "error" \in Reply.keys
    /\ Reply.error.code = code

\* The handler bound to the agent raises on the message of the request.
HandlerRaises ==
    process_message(agent, Body.params.message, None, None, 0).raised

\* A message/send request that reaches the handler.
ReachesHandler ==
    /\ Answered
    /\ PassedGate
    /\ Body.kind = "dict"
    /\ Body.method = "message/send"
    /\ Body.params.kind # "nondict"

\* A valid message/send request: it reaches the handler, which returns a reply.
ValidSend == ReachesHandler /\ ~HandlerRaises

\* C1: the response to a valid message/send request is an envelope whose id
\* is the id of the request.
C1_SendEchoesRequestId ==
    ValidSend => (last_response.transport = "json" /\ Reply.id = Body.id)

C1_Witness ==
    ValidSend /\ IsSuccess /\ Body.id = Client(2) /\ Reply.id = Client(2)

\* C2: every response envelope, success or error, and every event of a
\* stream carries the id of the request that caused it.
C2_EveryResponseEchoesRequestId ==
    Answered =>
        /\ last_response.transport = "json" => Reply.id = Body.id
        /\ \A k \in DOMAIN streams :
               LET ev == sent_events(streams[k]) IN
               \A i \in DOMAIN ev : ev[i].id = streams[k].data.id

\* The method of the request is none the agent dispatches: anything but
\* message/send and, on StreamingA2AAgent, message/stream.
UnknownMethod(a, body) ==
    /\ body.kind = "dict"
    /\ body.method # "message/send"
    /\ ~(a.cls = "Streaming" /\ body.method = "message/stream")

\* C3: a request with an unknown method that reaches the dispatch is answered
\* with error -32601, and the task table (keys, tasks and their histories) is
\* the same after the request as before it.
C3_UnknownMethodCreatesNoTask ==
    [][ (requests_seen' = requests_seen + 1
         /\ (agent.cls # "Secure" \/ authenticate_request(agent, last_request'.headers))
         /\ UnknownMethod(agent, last_request'.body))
        => (/\ last_response'.transport = "json"
            /\ last_response'.envelope.keys = {"jsonrpc", "id", "error"}
            /\ last_response'.envelope.error.code = -32601
            /\ tasks' = tasks) ]_vars

C3_Witness ==
    /\ Answered
    /\ Body.kind = "dict"
    /\ Body.method = "message/delete"
    /\ IsError(-32601)
    /\ DOMAIN tasks # {}

\* C4: a body that is malformed JSON, or that lacks "method" or "id", is
\* answered with error -32603; -32601 is given only to a method that is
\* present and not recognized.
C4_MalformedRejectedWithInternalError ==
    (Answered /\ PassedGate) =>
        /\ (\/ Body.kind = "malformed"
            \/ (Body.kind = "dict" /\ (Body.method = "None" \/ Body.id = None)))
           => IsError(-32603)
        /\ IsError(-32601) => (Body.kind = "dict" /\ Body.method # "None")

\* A response the caller can render: an error envelope, a result, or a
\* stream of events.
Renderable(response) ==
    \/ response.transport = "json"
       /\ (response.envelope.keys = {"jsonrpc", "id", "error"}
           \/ response.envelope.keys = {"jsonrpc", "id", "result"})
    \/ response.transport = "sse"

\* C5: every request, failed ones included, is answered with a response the
\* caller can render; no exception leaves handle_json_rpc.
C5_NoUnhandledException ==
    Answered => (last_response.transport # "exception" /\ Renderable(last_response))

\* C6: when the handler of a message/send request fails, the response is a
\* success envelope whose result is a Task in state failed, stored in the
\* table, whose history ends with a reply message carrying the error.
C6_HandlerFailureGivesFailedTask ==
    (ReachesHandler /\ HandlerRaises) =>
        /\ IsSuccess
        /\ Reply.result.status.state = "failed"
        /\ Reply.result.id \in DOMAIN tasks
        /\ tasks[Reply.result.id] = Reply.result
        /\ Len(Reply.result.history) > 0
        /\ Reply.result.history[Len(Reply.result.history)] = Reply.result.status.message

\* C8: the Task of a message/send request whose message supplies a contextId
\* has that contextId; a fresh one is allocated only when none is supplied.
C8_InboundContextIdReused ==
    (ValidSend /\ IsSuccess) =>
        /\ Body.params.message.contextId # None
           => Reply.result.contextId = Body.params.message.contextId
        /\ Reply.result.contextId.src = "uuid4"
           => Body.params.message.contextId = None

\* C9: every Task of the table in a terminal state has a non-empty history
\* whose last element is the message of its status.
C9_TerminalHistoryEndsWithStatusMessage ==
    \A t \in DOMAIN tasks :
        tasks[t].status.state \in TerminalStates =>
            /\ Len(tasks[t].history) > 0
            /\ tasks[t].history[Len(tasks[t].history)] = tasks[t].status.message

C9_Witness ==
    \E t \in DOMAIN tasks :
        /\ tasks[t].status.state = "completed"
        /\ Len(tasks[t].history) = 2
        /\ tasks[t].history[1].role = "user"
        /\ tasks[t].history[2] = tasks[t].status.message

IsPrefix(s, t) == Len(s) <= Len(t) /\ \A i \in 1..Len(s) : s[i] = t[i]

\* C7: while the handler of a message/send request runs, the Task of the
\* request is already in the table, in state submitted, with a history that
\* holds exactly the inbound message.
C7_TaskSubmittedBeforeHandlerRuns ==
    \A k \in DOMAIN inflight :
        /\ inflight[k].task_id \in DOMAIN tasks
        /\ tasks[inflight[k].task_id].status.state = "submitted"
        /\ tasks[inflight[k].task_id].history = <<inflight[k].message>>

\* C10: in every step, each Task of the table stays in the table and its
\* previous history is a prefix of its new history; the history of a Task in
\* a terminal state does not change at all.
C10_HistoryAppendOnly ==
    [][ \A t \in DOMAIN tasks :
          /\ t \in DOMAIN tasks'
          /\ IsPrefix(tasks[t].history, tasks'[t].history)
          /\ tasks[t].status.state \in TerminalStates
             => tasks'[t].history = tasks[t].history ]_vars

\* Two Tasks are stored: the step that stored the second found the first in
\* the table.
C10_Witness ==
    /\ Cardinality(DOMAIN tasks) >= 2
    /\ \A t \in DOMAIN tasks : Len(tasks[t].history) = 2

\* C11: a Task of the table that is in a terminal state has the same state
\* after every step, whatever request the step handles.
C11_TerminalStateIsFinal ==
    [][ \A t \in DOMAIN tasks :
          (tasks[t].status.state \in TerminalStates /\ t \in DOMAIN tasks')
          => tasks'[t].status.state = tasks[t].status.state ]_vars

\* The Task of the first request is completed and a second message/send
\* request was answered after it.
C11_Witness ==
    /\ requests_seen >= 2
    /\ IsSuccess
    /\ Reply.result.id = new_task_id(2)
    /\ new_task_id(1) \in DOMAIN tasks
    /\ tasks[new_task_id(1)].status.state = "completed"

\* C12: every Task is stored under its own id, and a step that answers a
\* message/send request with a result adds exactly one key, which was not in
\* the table, and leaves every entry that was in the table as it was.
C12_TaskIdsNeverReused ==
    [][ /\ \A t \in DOMAIN tasks' : tasks'[t].id = t
        /\ (requests_seen' = requests_seen + 1
            /\ last_response'.transport = "json"
            /\ "result" \in last_response'.envelope.keys)
           => /\ last_response'.envelope.result.id \notin DOMAIN tasks
              /\ DOMAIN tasks' = DOMAIN tasks \cup {last_response'.envelope.result.id}
              /\ Cardinality(DOMAIN tasks') = Cardinality(DOMAIN tasks) + 1
              /\ \A t \in DOMAIN tasks : tasks'[t] = tasks[t] ]_vars

C12_Witness ==
    /\ IsSuccess
    /\ Cardinality(DOMAIN tasks) = 2
    /\ Reply.result.id \in DOMAIN tasks
    /\ \E t \in DOMAIN tasks : t # Reply.result.id

\* The text of the first part of a reply says that the workflow failed.
IsWorkflowError(message) ==
    /\ message.parts # <<>>
    /\ message.parts[1].text # <<>>
    /\ message.parts[1].text[1] = "Error in appointment booking workflow: "

\* C13: under every interleaving of the coordinator's requests, a step
\* leaves every entry of the table as it was, and the only key it may add is
\* the task id of the request whose handler returned in that step; so a
\* request that fails changes no entry of another request and writes none
\* for a request still in flight.
C13_RequestsWriteOnlyTheirOwnTask ==
    [][ /\ \A t \in DOMAIN tasks : t \in DOMAIN tasks' /\ tasks'[t] = tasks[t]
        /\ \A t \in DOMAIN tasks' \ DOMAIN tasks :
              \E k \in DOMAIN inflight \ DOMAIN inflight' : inflight[k].task_id = t
        /\ Cardinality(DOMAIN tasks' \ DOMAIN tasks) <= 1
        /\ \A k \in DOMAIN inflight' : inflight'[k].task_id \notin DOMAIN tasks' ]_vars

\* A request failed in a downstream call while another one is suspended.
C13_Witness ==
    /\ DOMAIN inflight # {}
    /\ IsSuccess
    /\ IsWorkflowError(Reply.result.status.message)
    /\ Reply.result.id \in DOMAIN tasks

---------------------------------------------------------------------------
\* Properties of the coordinator's pipeline

\* The agents of the pipeline, in its order: patient, doctor, booking.
StepUrls ==
    <<"http://localhost:8001/a2a/v1", "http://localhost:8002/a2a/v1",
      "http://localhost:8003/a2a/v1">>

\* The urls the calls of a request went to, in the order they were posted.
UrlsCalled(k) == [i \in 1..Len(calls[k]) |-> calls[k][i].payload.url]

\* The call raised: a timeout or a transport error.
CallRaised(c) == c.outcome \notin {"pending", "result", "error"}

\* The k-th request was answered: its handler is not suspended any more.
Finished(k) == k \in DOMAIN calls /\ k \notin DOMAIN inflight

\* C14: a call that raised is the last call its request makes: the request
\* is answered with it, and the calls made are exactly those of the steps up
\* to the failing one (the calls to the patient and the doctor agent when
\* the second step fails).
C14_FailedStepShortCircuits ==
    \A k \in DOMAIN calls : \A i \in 1..Len(calls[k]) :
        CallRaised(calls[k][i])
        => /\ i = Len(calls[k])
           /\ Finished(k)
           /\ UrlsCalled(k) = SubSeq(StepUrls, 1, i)

\* The call to the doctor agent timed out.
C14_Witness ==
    \E k \in DOMAIN calls :
        /\ Finished(k)
        /\ Len(calls[k]) = 2
        /\ calls[k][1].outcome = "result"
        /\ calls[k][2].outcome = "ReadTimeout"

\* C20: no agent is called twice for one inbound request, whether its call
\* returned, raised or is still outstanding: a request makes at most one
\* call to each agent, and at most as many calls as the pipeline has steps.
C20_NoRetry ==
    \A k \in DOMAIN calls :
        /\ Len(calls[k]) <= 3
        /\ \A i, j \in 1..Len(calls[k]) :
              calls[k][i].payload.url = calls[k][j].payload.url => i = j

\* A request was answered after its call to the patient agent raised, and
\* that call is the only one it made.
C20_Witness ==
    \E k \in DOMAIN calls :
        /\ Finished(k)
        /\ Len(calls[k]) = 1
        /\ CallRaised(calls[k][1])
        /\ calls[k][1].payload.url = StepUrls[1]

\* C19: the calls of one request are made one after the other in the order
\* patient, doctor, booking: every call before the last one has ended with a
\* response when the next one is posted, so at most one call of a request is
\* outstanding, and it is outstanding exactly while the request is suspended.
C19_CallsAreSequential ==
    \A k \in DOMAIN calls :
        /\ Len(calls[k]) \in 1..3
        /\ UrlsCalled(k) = SubSeq(StepUrls, 1, Len(calls[k]))
        /\ \A i \in 1..(Len(calls[k]) - 1) : calls[k][i].outcome \in {"result", "error"}
        /\ calls[k][Len(calls[k])].outcome = "pending" <=> k \in DOMAIN inflight

\* The call to the booking agent is outstanding, after the calls to the
\* patient and the doctor agent returned.
C19_Witness ==
    \E k \in DOMAIN inflight :
        /\ Len(calls[k]) = 3
        /\ calls[k][1].outcome = "result"
        /\ calls[k][2].outcome = "result"
        /\ calls[k][3].outcome = "pending"

\* The Task stored for the k-th request, and the reply it holds.
TaskOf(k) == tasks[new_task_id(k)]

ReplyOf(k) == TaskOf(k).status.message

\* What a step's agent returned as its result.
StepResult(k, i) == <<DownstreamResult(calls[k][i].payload).result>>

\* C18: when the three calls of a request returned a result, its Task is
\* completed and its reply holds a data part with the three step
\* descriptions in the order patient, doctor, booking, the result of the
\* patient agent as patient_info, the result of the doctor agent as
\* doctor_availability and the result of the booking agent as booking_result.
C18_SuccessAggregatesEveryStep ==
    \A k \in DOMAIN calls :
        (/\ Finished(k)
         /\ Len(calls[k]) = 3
         /\ \A i \in 1..3 : calls[k][i].outcome = "result")
        => /\ new_task_id(k) \in DOMAIN tasks
           /\ TaskOf(k).status.state = "completed"
           /\ Len(ReplyOf(k).parts) = 2
           /\ ReplyOf(k).parts[2].kind = "data"
           /\ LET d == ReplyOf(k).parts[2].data[1] IN
              /\ d.workflow_steps = <<"Checking patient information...",
                                      "Finding available doctors...",
                                      "Booking appointment...">>
              /\ d.patient_info = StepResult(k, 1)
              /\ d.doctor_availability = StepResult(k, 2)
              /\ d.booking_result = StepResult(k, 3)
              /\ d.status = "completed"
              /\ StepResult(k, 1)[1].by = StepUrls[1]
              /\ StepResult(k, 2)[1].by = StepUrls[2]
              /\ StepResult(k, 3)[1].by = StepUrls[3]

\* A request was answered after its three calls returned a result.
C18_Witness ==
    \E k \in DOMAIN calls :
        /\ Finished(k)
        /\ Len(calls[k]) = 3
        /\ \A i \in 1..3 : calls[k][i].outcome = "result"
        /\ last_response.transport = "json"
        /\ "result" \in last_response.envelope.keys
        /\ last_response.envelope.result = TaskOf(k)

\* C15: the Task of a request one of whose steps failed (its call raised,
\* or the agent answered with an error) is in state failed.
C15_FailedStepGivesFailedTask ==
    \A k \in DOMAIN calls :
        (Finished(k) /\ \E i \in 1..Len(calls[k]) : calls[k][i].outcome # "result")
        => /\ new_task_id(k) \in DOMAIN tasks
           /\ TaskOf(k).status.state = "failed"

\* Some data part of the reply of the k-th request holds the result of its
\* i-th step.
ReplyHoldsResult(k, i) ==
    \E p \in 1..Len(ReplyOf(k).parts) :
        /\ ReplyOf(k).parts[p].kind = "data"
        /\ LET d == ReplyOf(k).parts[p].data[1] IN
           StepResult(k, i) \in {d.patient_info, d.doctor_availability, d.booking_result}

\* C16: the reply of a request whose call raised describes the failure and
\* holds the result of every step that succeeded before it.
C16_FailureReplyKeepsEarlierResults ==
    \A k \in DOMAIN calls :
        (Finished(k) /\ CallRaised(calls[k][Len(calls[k])]))
        => /\ new_task_id(k) \in DOMAIN tasks
           /\ IsWorkflowError(ReplyOf(k))
           /\ \A i \in 1..(Len(calls[k]) - 1) :
                 calls[k][i].outcome = "result" => ReplyHoldsResult(k, i)

\* The reply says that the workflow was completed.
ReportsCompleted(message) ==
    \/ /\ message.parts # <<>>
       /\ message.parts[1].text = <<"Appointment booking workflow completed successfully!">>
    \/ \E p \in 1..Len(message.parts) :
          /\ message.parts[p].kind = "data"
          /\ message.parts[p].data[1].status = "completed"

\* C17: a call answered with an error envelope is the last call of its
\* request, and the reply of that request does not report the workflow as
\* completed.
C17_ErrorEnvelopeIsStepFailure ==
    \A k \in DOMAIN calls : \A i \in 1..Len(calls[k]) :
        calls[k][i].outcome = "error"
        => /\ i = Len(calls[k])
           /\ Finished(k)
           /\ new_task_id(k) \in DOMAIN tasks
           /\ ~ReportsCompleted(ReplyOf(k))

---------------------------------------------------------------------------
\* Properties of the stream

\* The response to the last request is a StreamingResponse.
IsStream == last_response.transport = "sse"

\* The events sent so far on the stream of the k-th request.
EventsOf(k) == sent_events(streams[k])

\* The stream of the k-th request has ended.
Ended(k) == streams[k].done

\* The stages of the analysis in their configured order.
ConfiguredStages ==
    <<"Analyzing patient demographics...", "Processing medical history...",
      "Evaluating diagnostic patterns...", "Generating risk assessment...",
      "Finalizing recommendations...">>

\* The event is marked final.
IsFinal(e) == e.result.has_final /\ e.result.final

\* C21: a stream has exactly N+2 events for the N configured stages: first
\* the working event of the acceptance, then one working event per stage
\* with the stage's message, in the configured order, and last one event in
\* state completed or failed.  The events sent so far are always the
\* beginning of that sequence, and the stream ends only after all of it.
C21_StreamHasOneEventPerStage ==
    \A k \in DOMAIN streams :
        LET ev == EventsOf(k)
            N == Len(ConfiguredStages)
        IN  /\ Len(ev) <= N + 2
            /\ Ended(k) => Len(ev) = N + 2
            /\ Len(ev) >= 1 => /\ ev[1].result.kind = "task"
                               /\ ev[1].result.state = "working"
            /\ \A i \in 1..N :
                  i + 1 <= Len(ev)
                  => /\ ev[i + 1].result.kind = "status-update"
                     /\ ev[i + 1].result.state = "working"
                     /\ ev[i + 1].result.message.parts = <<TextPart(<<ConfiguredStages[i]>>)>>
            /\ Len(ev) = N + 2 => ev[N + 2].result.state \in {"completed", "failed"}
            /\ \A i \in 1..Len(ev) : i < N + 2 => ev[i].result.state \notin TerminalStates

\* A stream has ended after its seven events, another request having been
\* answered while it was being sent.
C21_Witness ==
    \E k \in DOMAIN streams :
        /\ Ended(k)
        /\ Len(EventsOf(k)) = 7
        /\ EventsOf(k)[7].result.state = "completed"
        /\ requests_seen > k

\* C22: exactly one event of a stream is marked final, it is the event in
\* state completed or failed, and no working event of a stage is marked
\* final.
C22_ExactlyOneFinalEvent ==
    \A k \in DOMAIN streams :
        LET ev == EventsOf(k) IN
        Ended(k)
        => /\ Cardinality({i \in 1..Len(ev) : IsFinal(ev[i])}) = 1
           /\ \A i \in 1..Len(ev) :
                 IsFinal(ev[i]) <=> ev[i].result.state \in {"completed", "failed"}

\* C23: an event marked final is the last event sent on its stream.
C23_NothingAfterFinalEvent ==
    \A k \in DOMAIN streams :
        LET ev == EventsOf(k) IN
        \A i \in 1..Len(ev) : IsFinal(ev[i]) => i = Len(ev)

\* C24: the events of a stream carry one task id and one context id; the
\* task id is a uuid drawn for the request of the stream, so no other stream
\* has it and no Task is stored under it.
C24_StreamSharesOneTaskId ==
    \A k \in DOMAIN streams :
        LET ev == EventsOf(k) IN
        /\ \A i \in 1..Len(ev) :
              /\ ev[i].result.task_id = ev[1].result.task_id
              /\ ev[i].result.contextId = ev[1].result.contextId
              /\ ev[i].result.task_id.src = "uuid4"
              /\ ev[i].result.task_id.req = k
              /\ ev[i].result.task_id \notin DOMAIN tasks
        /\ \A j \in DOMAIN streams \ {k}, i \in 1..Len(ev) :
              \A h \in 1..Len(EventsOf(j)) :
                  ev[i].result.task_id # EventsOf(j)[h].result.task_id

\* Two streams are being sent at the same time, each event with the task id
\* drawn for its stream.
C24_Witness ==
    /\ DOMAIN streams = {1, 2}
    /\ ~Ended(1) /\ ~Ended(2)
    /\ Len(EventsOf(1)) >= 3
    /\ Len(EventsOf(2)) >= 2
    /\ EventsOf(1)[3].result.task_id = Uuid(1, 1)
    /\ EventsOf(2)[2].result.task_id = Uuid(2, 1)

---------------------------------------------------------------------------
\* Properties of the dispatch, the gate and the envelopes

\* C25: a message/stream request that reaches the dispatch is answered
\* with a stream on an agent whose card says streaming = true and with error
\* -32601 on an agent whose card says streaming = false, no other request is
\* answered with a stream, and a message/send request that reaches the
\* dispatch is answered on every agent by the synchronous path: one
\* envelope, with the Task it stored or with the error of the handler.
C25_StreamOnlyWhereAdvertised ==
    (Answered /\ PassedGate /\ Body.kind = "dict")
    => /\ Body.method = "message/stream"
          => IF get_agent_card(agent).capabilities.streaming
             THEN IsStream
             ELSE IsError(-32601)
       /\ IsStream => /\ Body.method = "message/stream"
                      /\ get_agent_card(agent).capabilities.streaming
       /\ Body.method = "message/send"
          => \/ /\ IsSuccess
                /\ Reply.result.kind = "task"
                /\ Reply.result.id \in DOMAIN tasks
             \/ IsError(-32603)

\* An agent that does not advertise streaming rejected message/stream.
C25_Witness ==
    /\ agent.cls = "Base"
    /\ ~get_agent_card(agent).capabilities.streaming
    /\ Body.kind = "dict"
    /\ Body.method = "message/stream"
    /\ IsError(-32601)

\* C26: a request whose credentials the gate of SecureA2AAgent rejects is
\* answered with an error envelope of code -32001 and no result, whatever
\* its body is, and the step leaves the task table as it was.
C26_RejectedRequestCreatesNoTask ==
    [][ (/\ requests_seen' = requests_seen + 1
         /\ agent.cls = "Secure"
         /\ ~authenticate_request(agent, last_request'.headers))
        => /\ last_response'.transport = "json"
           /\ last_response'.envelope.keys = {"jsonrpc", "id", "error"}
           /\ last_response'.envelope.error.code = -32001
           /\ tasks' = tasks ]_vars

\* A valid message/send request was rejected by the gate after a Task of an
\* authenticated request was stored.
C26_Witness ==
    /\ agent.cls = "Secure"
    /\ ~authenticate_request(agent, last_request.headers)
    /\ Body.kind = "dict"
    /\ Body.method = "message/send"
    /\ Body.params.kind = "dict"
    /\ IsError(-32001)
    /\ Cardinality(DOMAIN tasks) = 1

\* The dict has exactly one of the members result and error.
ExactlyOneOfResultAndError(keys) == ("result" \in keys) # ("error" \in keys)

\* C28: every envelope returned, as the JSON response or as an event of a
\* stream, has exactly one of result and error.
C28_ResultXorError ==
    /\ last_response.transport = "json" => ExactlyOneOfResultAndError(Reply.keys)
    /\ \A k \in DOMAIN streams :
          LET ev == EventsOf(k) IN
          \A i \in 1..Len(ev) : ExactlyOneOfResultAndError(ev[i].keys)

\* An error envelope was returned after a success envelope.
C28_Witness ==
    /\ requests_seen = 2
    /\ DOMAIN tasks # {}
    /\ last_response.transport = "json"
    /\ "error" \in Reply.keys
    /\ "result" \notin Reply.keys

\* C29: every Task of the table is in state submitted, completed or failed.
C29_OnlySynchronousStates ==
    \A t \in DOMAIN tasks : tasks[t].status.state \in {"submitted", "completed", "failed"}

\* Two Tasks are stored, and neither is working, input-required or canceled.
C29_Witness ==
    /\ Cardinality(DOMAIN tasks) = 2
    /\ \A t \in DOMAIN tasks :
          tasks[t].status.state \notin {"working", "input-required", "canceled"}

\* C30: a key of the task table is a key of it after every step.
C30_TasksAreRetained ==
    [][DOMAIN tasks \subseteq DOMAIN tasks']_vars

\* The Task of the first request is still stored after a second request
\* that failed.
C30_Witness ==
    /\ requests_seen = 2
    /\ new_task_id(1) \in DOMAIN tasks
    /\ ~IsSuccess
    /\ ~IsStream

---------------------------------------------------------------------------
\* Properties the code has without the specification saying so

\* C32: every entry of the task table is a completed Task whose history is
\* the inbound message followed by the reply of the handler, which is also
\* its status message; the entry is written when the handler has returned,
\* so the request answered last finds its Task there with its own message
\* first, and a request whose handler is suspended has no entry.
C32_EntriesAreCompletedPairs ==
    /\ \A t \in DOMAIN tasks :
          /\ tasks[t].status.state = "completed"
          /\ Len(tasks[t].history) = 2
          /\ tasks[t].history[2] = tasks[t].status.message
          /\ tasks[t].history[2].role = "agent"
          /\ tasks[t].history[2].taskId = t
    /\ IsSuccess => /\ Reply.result.id \in DOMAIN tasks
                    /\ tasks[Reply.result.id] = Reply.result
                    /\ Reply.result.history[1] = Body.params.message
    /\ \A k \in DOMAIN inflight : inflight[k].task_id \notin DOMAIN tasks

\* The Task of a request is stored while the handler of another request is
\* suspended in a call.
C32_Witness ==
    /\ IsSuccess
    /\ Len(Reply.result.history) = 2
    /\ Reply.result.history[1] = Body.params.message
    /\ \E k \in DOMAIN inflight : inflight[k].task_id # Reply.result.id

\* C33: a message/send request whose body was decoded and whose handler
\* raises is answered with error -32603 under the id of the request, and the
\* task table is the same after it as before.
C33_HandlerExceptionIsInternalError ==
    [][ (requests_seen' = requests_seen + 1 /\ ReachesHandler' /\ HandlerRaises')
        => /\ last_response'.transport = "json"
           /\ last_response'.envelope.keys = {"jsonrpc", "id", "error"}
           /\ last_response'.envelope.error.code = -32603
           /\ last_response'.envelope.id = last_request'.body.id
           /\ tasks' = tasks ]_vars

\* The doctor agent's handler raised on the second request, after the Task
\* of the first one was stored.
C33_Witness ==
    /\ requests_seen = 2
    /\ ReachesHandler
    /\ HandlerRaises
    /\ IsError(-32603)
    /\ Reply.id = Body.id
    /\ Cardinality(DOMAIN tasks) = 1

\* C34: whatever the calls of a request did, the step in which its handler
\* returns answers it with a success envelope under the id of the request,
\* whose result is the stored Task in state completed; the reply says that
\* the workflow failed exactly when a call raised.
C34_CoordinatorAlwaysCompletes ==
    [][ \A k \in DOMAIN inflight \ DOMAIN inflight' :
          /\ last_response'.transport = "json"
          /\ last_response'.envelope.keys = {"jsonrpc", "id", "result"}
          /\ last_response'.envelope.id = inflight[k].request.body.id
          /\ inflight[k].task_id \in DOMAIN tasks'
          /\ last_response'.envelope.result = tasks'[inflight[k].task_id]
          /\ last_response'.envelope.result.status.state = "completed"
          /\ IsWorkflowError(last_response'.envelope.result.status.message)
             <=> CallRaised(calls'[k][Len(calls'[k])]) ]_vars

\* A request was answered with a completed Task after the patient agent
\* returned an error envelope and the call to the booking agent timed out.
C34_Witness ==
    \E k \in DOMAIN calls :
        /\ Finished(k)
        /\ Len(calls[k]) = 3
        /\ calls[k][1].outcome = "error"
        /\ calls[k][3].outcome = "ReadTimeout"
        /\ IsSuccess
        /\ Reply.result = TaskOf(k)
        /\ Reply.result.status.state = "completed"

\* C35: a call to the booking agent is the third call of its request, and
\* the calls to the patient agent and to the doctor agent of that request
\* have both ended with a response before it.
C35_BookingAfterPatientAndDoctor ==
    \A k \in DOMAIN calls : \A i \in 1..Len(calls[k]) :
        calls[k][i].payload.url = StepUrls[3]
        => /\ i = 3
           /\ calls[k][1].payload.url = StepUrls[1]
           /\ calls[k][1].outcome \in {"result", "error"}
           /\ calls[k][2].payload.url = StepUrls[2]
           /\ calls[k][2].outcome \in {"result", "error"}

\* The booking agent answered the call of a request whose patient call was
\* answered with an error envelope.
C35_Witness ==
    \E k \in DOMAIN calls :
        /\ Len(calls[k]) = 3
        /\ calls[k][3].payload.url = StepUrls[3]
        /\ calls[k][3].outcome = "result"
        /\ calls[k][2].outcome = "result"
        /\ calls[k][1].outcome = "error"

\* C36: a step that answers a request with a stream, and a step that sends
\* an event of a stream, leave the task table as it was, and the task id of
\* the events of a stream is never a key of it.
C36_StreamStoresNoTask ==
    [][ /\ (requests_seen' = requests_seen + 1 /\ last_response'.transport = "sse")
           => tasks' = tasks
        /\ (requests_seen' = requests_seen /\ streams' # streams) => tasks' = tasks
        /\ \A k \in DOMAIN streams' :
              LET ev == sent_events(streams'[k]) IN
              \A i \in 1..Len(ev) : ev[i].result.task_id \notin DOMAIN tasks' ]_vars

\* The Task of a message/send request is stored while the stream of the
\* request before it has sent two of its events.
C36_Witness ==
    /\ agent.cls = "Streaming"
    /\ requests_seen = 2
    /\ 1 \in DOMAIN streams
    /\ ~Ended(1)
    /\ Len(EventsOf(1)) = 2
    /\ DOMAIN tasks = {Uuid(2, 1)}
    /\ EventsOf(1)[1].result.task_id \notin DOMAIN tasks

\* The credentials of the request are enough for the agent.
Accepted(a, headers) ==
    \/ ~a.require_auth
    \/ headers.api_key # <<>> /\ validate_api_key(headers.api_key)
    \/ /\ headers.authorization # <<>>
       /\ headers.authorization[1] = "Bearer "
       /\ validate_jwt_token(Tail(headers.authorization))

\* C39: SecureA2AAgent rejects a request with error -32001 exactly when
\* require_auth is set, its X-API-Key is missing or invalid, and its
\* Authorization header is no Bearer token that validates.
C39_GateAcceptsExactlyValidCredentials ==
    (Answered /\ agent.cls = "Secure")
    => /\ authenticate_request(agent, last_request.headers) <=> Accepted(agent, last_request.headers)
       /\ IsError(-32001) <=> ~Accepted(agent, last_request.headers)

\* A request with an invalid API key and a valid bearer token was accepted.
C39_Witness ==
    /\ agent = SecureAgent
    /\ last_request.headers.api_key = <<"clinic_", "front-desk">>
    /\ last_request.headers.authorization = <<"Bearer ", "valid", "-token">>
    /\ IsSuccess

---------------------------------------------------------------------------
\* Properties of the patient agent's records

\* The text of the request handled last, and the first text of its reply.
RequestText(request) == request.body.params.message.parts[1].text

ReplyText(response) == response.envelope.result.status.message.parts[1].text

\* The records are consistent: no two patients share a medical record
\* number, the numbers given so far are 1..n for the n patients, and both
\* indexes lead to patients.
RecordsConsistent(ps, by_email, by_mrn) ==
    /\ \A p, q \in DOMAIN ps :
          ps[p].medical_record_number = ps[q].medical_record_number => p = q
    /\ {ps[p].medical_record_number : p \in DOMAIN ps}
          = {format_mrn(n) : n \in 1..Cardinality(DOMAIN ps)}
    /\ \A e \in DOMAIN by_email : by_email[e] \in DOMAIN ps
    /\ \A m \in DOMAIN by_mrn : by_mrn[m] \in DOMAIN ps /\ ps[by_mrn[m]].medical_record_number = m

\* C37: after every request the medical record numbers are pairwise
\* distinct and both indexes hold only ids of patients; a registration that
\* succeeds adds one patient, whose number is n for the n-th of them, and
\* keeps the others; a request answered otherwise (a registration without
\* name, email or phone, a lookup, a request that raised) changes none of
\* the three maps.
C37_PatientRecordsStayConsistent ==
    [][ /\ RecordsConsistent(patients', patient_by_email', patient_by_mrn')
        /\ IF /\ last_response'.transport = "json"
              /\ "result" \in last_response'.envelope.keys
              /\ requests_seen' = requests_seen + 1
              /\ ReplyText(last_response') = <<"Patient registered successfully!">>
           THEN \E p \in DOMAIN patients' \ DOMAIN patients :
                   /\ DOMAIN patients' = DOMAIN patients \cup {p}
                   /\ \A q \in DOMAIN patients : patients'[q] = patients[q]
                   /\ patients'[p].medical_record_number
                         = format_mrn(Cardinality(DOMAIN patients) + 1)
                   /\ patient_by_mrn'[patients'[p].medical_record_number] = p
                   /\ patient_by_email'[patients'[p].email] = p
           ELSE /\ patients' = patients
                /\ patient_by_email' = patient_by_email
                /\ patient_by_mrn' = patient_by_mrn ]_vars

\* Two patients are registered under one email, and a third registration,
\* which named no email, was turned down.
C37_Witness ==
    /\ Cardinality(DOMAIN patients) = 2
    /\ Cardinality(DOMAIN patient_by_mrn) = 2
    /\ Cardinality(DOMAIN patient_by_email) = 1
    /\ Contains(RequestText(last_request), "register")
    /\ IsSuccess
    /\ ReplyText(last_response)
          = <<"Please provide patient name, email, and phone number for registration.">>

---------------------------------------------------------------------------
\* Properties of the booking agent's appointments

\* C38: after every request each appointment is stored under its own id,
\* the ids being those of the first n bookings; a step keeps every
\* appointment, unchanged or with its status set to cancelled, and an
\* appointment that was cancelled stays as it is; a step adds at most one
\* appointment, under an id that was free, in status scheduled.
C38_AppointmentsAreNeverLost ==
    [][ /\ \A a \in DOMAIN appointments' : appointments'[a].id = a
        /\ DOMAIN appointments'
              = {format_appointment_id(n) : n \in 1..Cardinality(DOMAIN appointments')}
        /\ DOMAIN appointments \subseteq DOMAIN appointments'
        /\ Cardinality(DOMAIN appointments') >= Cardinality(DOMAIN appointments)
        /\ \A a \in DOMAIN appointments :
              /\ appointments'[a] \in {appointments[a],
                                       [appointments[a] EXCEPT !.status = "cancelled"]}
              /\ appointments[a].status = "cancelled" => appointments'[a].status = "cancelled"
        /\ Cardinality(DOMAIN appointments' \ DOMAIN appointments) <= 1
        /\ \A a \in DOMAIN appointments' \ DOMAIN appointments :
              appointments'[a].status = "scheduled" ]_vars

\* An appointment was booked, cancelled, and cancelled once more.
C38_Witness ==
    /\ requests_seen = 3
    /\ Cardinality(DOMAIN tasks) = 3
    /\ DOMAIN appointments = {"APT000001"}
    /\ appointments["APT000001"].status = "cancelled"
    /\ \A k \in 2..3 :
          tasks[new_task_id(k)].status.message.parts[1].text
             = <<"Appointment ", "APT000001", " has been cancelled.">>

---------------------------------------------------------------------------
\* Termination of the stream

\* The k-th stream has ended: its generator returned after the event in
\* state completed, which is the last one sent.
StreamEnded(k) ==
    /\ streams[k].done
    /\ sent_events(streams[k]) # <<>>
    /\ sent_events(streams[k])[Len(sent_events(streams[k]))].result.state = "completed"
    /\ IsFinal(sent_events(streams[k])[Len(sent_events(streams[k]))])

\* C31: every stream that was opened ends: its terminal event is sent and
\* its generator returns.
C31_StreamTerminates ==
    \A k \in 1..MaxStreams : (k \in DOMAIN streams) ~> (k \in DOMAIN streams /\ StreamEnded(k))

\* A stream has ended with its seven events sent while another one is still
\* being served.
C31_Witness ==
    \E k \in DOMAIN streams :
        /\ StreamEnded(k)
        /\ Len(sent_events(streams[k])) = 7
        /\ \E j \in DOMAIN streams : ~streams[j].done /\ streams[j].yielded > 0

====
